---- MODULE Spec2Model ----
(***************************************************************************)
(* Usage-aggregation and settlement pipeline of app/jobs/record_usages.py: *)
(* the aggregation functions, the dialect-aware fact upserts, the          *)
(* retrying executor safe_execute and the two settlement cycles.           *)
(***************************************************************************)
EXTENDS Integers, Sequences, FiniteSets, TLC

VARIABLES
    \* configuration and environment
    dialect,                \* db.bind.dialect.name
    disable_recording,      \* config.DISABLE_RECORDING_NODE_USAGE
    utc_hour,               \* dt.now(tz.utc) truncated to the hour
    prior,                  \* value every stored counter had before the invocation
    \* database tables
    user_used_traffic,      \* User.used_traffic by user id
    user_online_at,         \* TRUE when User.online_at was stamped by the job
    admin_used_traffic,     \* Admin.used_traffic by admin id
    node_user_usages,       \* NodeUserUsage: <<created_at, user_id, node_id>> -> used_traffic
    \* record_user_usages
    user_pc,                \* position of the invocation
    user_error,             \* the step whose error propagated, "none" otherwise
    node_response,          \* what each node's get_stats call produced
    api_params,             \* node_id -> list of {"uid", "value"} entries
    usage_coefficient,      \* node_id -> coefficient, a rational <<num, den>>
    users_usage,            \* uid -> credited value (list of {"uid", "value"})
    admin_usage,            \* admin_id -> credited value
    record_tasks,           \* node_id -> state of its record_user_stats task
    \* more database tables
    node_uplink,            \* Node.uplink by node id
    node_downlink,          \* Node.downlink by node id
    system_uplink,          \* System.uplink of the single row
    system_downlink,        \* System.downlink of the single row
    node_usages,            \* NodeUsage: <<created_at, node_id>> -> [uplink, downlink]
    \* record_node_usages
    node_pc,                \* position of the invocation
    node_error,             \* the step whose error propagated, "none" otherwise
    outbound_response,      \* what each node's get_stats(Outbounds) call produced
    outbound_params,        \* node_id -> list of {"up", "down"} entries (its api_params)
    node_record_tasks,      \* node_id -> state of its record_node_stats task
    \* direct callers of record_user_stats / record_node_stats
    calls,                  \* number of calls made so far
    user_usages_before,     \* NodeUserUsage as it was when the last call was made
    node_usages_before,     \* NodeUsage as it was when the last call was made
    writers,                \* concurrent record_user_stats calls on one key
    \* safe_execute
    exec,                   \* the call: statement, loop position, errors, sleeps
    session,                \* the session GetDB opened for the current attempt
    \* the scheduler and the fleet, over several invocations
    sched,                  \* job -> instances running, firings, starts, skips
    node_side,              \* the nodes: per-user counters, traffic so far, coefficient
    cycle_start,            \* the tables as they were when the invocation started
    detached                \* record tasks still running after their invocation ended

callVars == <<calls, user_usages_before, node_usages_before>>
execVars == <<exec, session>>
cyclesVars == <<sched, node_side, cycle_start, detached>>
envVars == <<dialect, disable_recording, utc_hour, prior, callVars, writers, execVars,
             cyclesVars>>
userDbVars == <<user_used_traffic, user_online_at, admin_used_traffic, node_user_usages>>
userJobVars == <<user_pc, user_error, node_response, api_params, usage_coefficient,
                 users_usage, admin_usage, record_tasks>>
nodeDbVars == <<node_uplink, node_downlink, system_uplink, system_downlink, node_usages>>
nodeJobVars == <<node_pc, node_error, outbound_response, outbound_params, node_record_tasks>>
userVars == <<userDbVars, userJobVars>>
nodeVars == <<nodeDbVars, nodeJobVars>>
vars == <<envVars, userDbVars, userJobVars, nodeDbVars, nodeJobVars>>

----------------------------------------------------------------------------
(* Bounds and small domains *)

MaxEntries == 3     \* most entries, over all nodes, drawn for the aggregator alone
MaxValue == 2       \* largest entry value drawn for the aggregator alone

MaxRaw == 1         \* largest counter value a node reports in a cycle
MaxPrior == 1       \* largest value the stored counters start from
MaxHour == 1        \* last hour bucket the clock reaches
MaxStats == 2       \* most counters in a response drawn for the collectors alone
MaxFirings == 2     \* most firings of the two jobs the scheduler is followed for
MaxTraffic == 2     \* most traffic a user makes on the nodes, over all invocations

Nodes == {1, 2}
Users == {1, 2, 3}
Admins == {1, 2}
Dialects == {"postgresql", "mysql", "sqlite"}

\* User.admin_id: users 1 and 2 belong to admin 1, user 3 has no admin (NULL).
NULL == 0
UserAdmin == [u \in Users |-> IF u \in {1, 2} THEN 1 ELSE NULL]

\* A usage coefficient is a number; it is kept as the exact ratio num/den.
Coeffs == {<<1, 2>>, <<1, 1>>, <<3, 2>>, <<2, 1>>}

\* the coefficients the nodes of a cycle answer with
CycleCoeffs == {<<1, 2>>, <<2, 1>>}

----------------------------------------------------------------------------
(* Helpers *)

RECURSIVE SumFn(_, _)
SumFn(f, S) ==
    IF S = {} THEN 0
    ELSE LET x == CHOOSE y \in S : TRUE IN f[x] + SumFn(f, S \ {x})

SeqsUpTo(S, n) == UNION {[1..k -> S] : k \in 0..n}

\* Python int(x): truncation toward zero of the ratio num/den (den > 0).
IntTrunc(num, den) == IF num >= 0 THEN num \div den ELSE -((-num) \div den)

\* value * coeff rounded up instead of truncated
ScaledRoundedUp(value, coeff) == (value * coeff[1] + coeff[2] - 1) \div coeff[2]

\* int(value * coeff)
Scaled(value, coeff) == IntTrunc(value * coeff[1], coeff[2])

\* dict.get(node_id, 1)
CoeffGet(coefficients, node_id) ==
    IF node_id \in DOMAIN coefficients THEN coefficients[node_id] ELSE <<1, 1>>

\* defaultdict(int): d[key] += value
DictAdd(d, key, value) ==
    IF key \in DOMAIN d THEN [d EXCEPT ![key] = @ + value]
    ELSE [k \in DOMAIN d \cup {key} |-> IF k = key THEN value ELSE d[k]]

EmptyDict == [k \in {} |-> 0]

----------------------------------------------------------------------------
(* calculate_users_usage *)

\* the inner loop: for uid, value in node_usage: users_usage[uid] += value
RECURSIVE AddNodeUsage(_, _, _)
AddNodeUsage(acc, params, coeff) ==
    IF params = <<>> THEN acc
    ELSE AddNodeUsage(DictAdd(acc, Head(params).uid, Scaled(Head(params).value, coeff)),
                      Tail(params), coeff)

\* the outer loop over api_params.items()
RECURSIVE AddAllNodes(_, _, _, _)
AddAllNodes(acc, params_by_node, coefficients, todo) ==
    IF todo = {} THEN acc
    ELSE LET node_id == CHOOSE n \in todo : \A m \in todo : n <= m
         IN AddAllNodes(AddNodeUsage(acc, params_by_node[node_id],
                                     CoeffGet(coefficients, node_id)),
                        params_by_node, coefficients, todo \ {node_id})

calculate_users_usage(params_by_node, coefficients) ==
    AddAllNodes(EmptyDict, params_by_node, coefficients, DOMAIN params_by_node)

----------------------------------------------------------------------------
(* get_users_stats *)

\* A stat is [name |-> [seg |-> n, numeric |-> b], value |-> v]: seg stands
\* for the text before the first "." of the counter name, numeric tells
\* whether int() parses it.

\* the same grouping without the filter on nonzero values
RECURSIVE GroupStatsKeepingZeros(_, _, _)
GroupStatsKeepingZeros(keys, sums, stats) ==
    IF stats = <<>> THEN [keys |-> keys, sums |-> sums]
    ELSE LET stat == Head(stats) IN
         GroupStatsKeepingZeros(
             IF stat.name \in DOMAIN sums THEN keys ELSE Append(keys, stat.name),
             IF stat.name \in DOMAIN sums THEN [sums EXCEPT ![stat.name] = @ + stat.value]
             ELSE [k \in DOMAIN sums \cup {stat.name} |->
                     IF k = stat.name THEN stat.value ELSE sums[k]],
             Tail(stats))

\* params[stat.name.split(".", 1)[0]] += stat.value over the nonzero stats;
\* keys keeps the insertion order of the dict.
RECURSIVE GroupStats(_, _, _)
GroupStats(keys, sums, stats) ==
    IF stats = <<>> THEN [keys |-> keys, sums |-> sums]
    ELSE LET stat == Head(stats) IN
         IF stat.value = 0 THEN GroupStats(keys, sums, Tail(stats))
         ELSE GroupStats(IF stat.name \in DOMAIN sums THEN keys ELSE Append(keys, stat.name),
                         DictAdd(sums, stat.name, stat.value), Tail(stats))

\* the validation loop: int(uid) or skip
RECURSIVE ValidateParams(_, _)
ValidateParams(keys, sums) ==
    IF keys = <<>> THEN <<>>
    ELSE IF Head(keys).numeric
         THEN <<[uid |-> Head(keys).seg, value |-> sums[Head(keys)]]>>
              \o ValidateParams(Tail(keys), sums)
         ELSE ValidateParams(Tail(keys), sums)

\* the function without its except clauses handing back what it had parsed
get_users_stats_keeping_parsed(response) ==
    LET g == GroupStats(<<>>, EmptyDict, response.stats)
    IN ValidateParams(g.keys, g.sums)

\* response.ok = FALSE: the RPC raised NodeAPIError or another exception
get_users_stats(response) ==
    IF ~response.ok THEN <<>>
    ELSE LET g == GroupStats(<<>>, EmptyDict, response.stats)
         IN ValidateParams(g.keys, g.sums)

----------------------------------------------------------------------------
(* calculate_admin_usage *)

\* a lookup that falls back to admin 1 for a user without admin
AdminIdOrFirst(uid) ==
    IF uid \in DOMAIN UserAdmin /\ UserAdmin[uid] # 0 THEN UserAdmin[uid] ELSE 1

\* user_admin_map.get(uid) over the rows of select(User.id, User.admin_id)
AdminIdOf(uid) == IF uid \in DOMAIN UserAdmin THEN UserAdmin[uid] ELSE NULL

RECURSIVE AddAdminUsage(_, _, _)
AddAdminUsage(acc, usage, todo) ==
    IF todo = {} THEN acc
    ELSE LET uid == CHOOSE u \in todo : \A v \in todo : u <= v
             admin_id == AdminIdOf(uid)
         IN AddAdminUsage(IF admin_id # NULL THEN DictAdd(acc, admin_id, usage[uid]) ELSE acc,
                          usage, todo \ {uid})

calculate_admin_usage(usage) ==
    IF DOMAIN usage = {} THEN EmptyDict
    ELSE AddAdminUsage(EmptyDict, usage, DOMAIN usage)

----------------------------------------------------------------------------
(* Statements and their execution *)

InsertRow(table, key, value) ==
    [k \in DOMAIN table \cup {key} |-> IF k = key THEN value ELSE table[k]]

UserUsageKey(p) == <<p.created_at, p.uid, p.node_id>>
UserUsageUpdateKey(p) == <<p.b_created_at, p.b_uid, p.b_node_id>>

\* the statements with the conflict / update clause assigning the delta
\* instead of adding it
ExecUserUsageRowAssigning(table, stmt, p) ==
    CASE stmt \in {"pg_on_conflict_do_update", "mysql_on_duplicate_key_update"} ->
            [k \in DOMAIN table \cup {<<p.created_at, p.uid, p.node_id>>} |->
                IF k = <<p.created_at, p.uid, p.node_id>> THEN p.value ELSE table[k]]
      [] stmt = "insert_or_ignore" ->
            [k \in DOMAIN table \cup {<<p.created_at, p.uid, p.node_id>>} |->
                IF k \in DOMAIN table THEN table[k] ELSE 0]
      [] stmt = "update" ->
            [k \in DOMAIN table |->
                IF k = <<p.b_created_at, p.b_uid, p.b_node_id>> THEN p.value ELSE table[k]]

\* one row of an executemany on NodeUserUsage
ExecUserUsageRow(table, stmt, p) ==
    CASE stmt = "pg_on_conflict_do_update" ->
            IF UserUsageKey(p) \in DOMAIN table
            THEN [table EXCEPT ![UserUsageKey(p)] = @ + p.value]
            ELSE InsertRow(table, UserUsageKey(p), p.value)
      [] stmt = "mysql_on_duplicate_key_update" ->
            IF UserUsageKey(p) \in DOMAIN table
            THEN [table EXCEPT ![UserUsageKey(p)] = @ + p.value]
            ELSE InsertRow(table, UserUsageKey(p), p.value)
      [] stmt = "insert_or_ignore" ->
            IF UserUsageKey(p) \in DOMAIN table THEN table
            ELSE InsertRow(table, UserUsageKey(p), 0)
      [] stmt = "update" ->
            IF UserUsageUpdateKey(p) \in DOMAIN table
            THEN [table EXCEPT ![UserUsageUpdateKey(p)] = @ + p.value]
            ELSE table

RECURSIVE ExecUserUsage(_, _, _)
ExecUserUsage(table, stmt, params) ==
    IF params = <<>> THEN table
    ELSE ExecUserUsage(ExecUserUsageRow(table, stmt, Head(params)), stmt, Tail(params))

\* the builder with the fallback path missing its update statement
BuildWithoutUpdate(d, upsert_params) ==
    IF d = "postgresql"
    THEN <<[stmt |-> "pg_on_conflict_do_update", params |-> upsert_params]>>
    ELSE IF d = "mysql"
    THEN <<[stmt |-> "mysql_on_duplicate_key_update", params |-> upsert_params]>>
    ELSE <<[stmt |-> "insert_or_ignore", params |-> upsert_params]>>

build_node_user_usage_upsert(d, upsert_params) ==
    IF d = "postgresql"
    THEN <<[stmt |-> "pg_on_conflict_do_update", params |-> upsert_params]>>
    ELSE IF d = "mysql"
    THEN <<[stmt |-> "mysql_on_duplicate_key_update", params |-> upsert_params]>>
    ELSE <<[stmt |-> "insert_or_ignore", params |-> upsert_params],
           [stmt |-> "update",
            params |-> [i \in 1..Len(upsert_params) |->
                          [value |-> upsert_params[i].value,
                           b_uid |-> upsert_params[i].uid,
                           b_node_id |-> upsert_params[i].node_id,
                           b_created_at |-> upsert_params[i].created_at]]]>>

\* the list with the raw values, the coefficient left out
UserUpsertParamsUnscaled(params, node_id, coeff, created_at) ==
    [i \in 1..Len(params) |->
        [uid |-> params[i].uid, value |-> params[i].value,
         node_id |-> node_id, created_at |-> created_at]]

\* the upsert_params list of record_user_stats
UserUpsertParams(params, node_id, coeff, created_at) ==
    [i \in 1..Len(params) |->
        [uid |-> params[i].uid, value |-> Scaled(params[i].value, coeff),
         node_id |-> node_id, created_at |-> created_at]]

\* user_stmt setting used_traffic to the bound value
ExecUserStmtAssigning(traffic, usage) ==
    [u \in DOMAIN traffic |-> IF u \in DOMAIN usage THEN usage[u] ELSE traffic[u]]

\* user_stmt with the users_usage batch
ExecUserStmt(traffic, usage) ==
    [u \in DOMAIN traffic |-> IF u \in DOMAIN usage THEN traffic[u] + usage[u] ELSE traffic[u]]

\* admin_stmt with the admin_data batch
ExecAdminStmt(traffic, usage) ==
    [a \in DOMAIN traffic |-> IF a \in DOMAIN usage THEN traffic[a] + usage[a] ELSE traffic[a]]

NodeUsageKey(p) == <<p.created_at, p.node_id>>
NodeUsageUpdateKey(p) == <<p.b_created_at, p.b_node_id>>

\* one row of an executemany on NodeUsage
ExecNodeUsageRow(table, stmt, p) ==
    CASE stmt = "pg_on_conflict_do_update" ->
            IF NodeUsageKey(p) \in DOMAIN table
            THEN [table EXCEPT ![NodeUsageKey(p)] =
                    [uplink |-> @.uplink + p.up, downlink |-> @.downlink + p.down]]
            ELSE InsertRow(table, NodeUsageKey(p), [uplink |-> p.up, downlink |-> p.down])
      [] stmt = "mysql_on_duplicate_key_update" ->
            IF NodeUsageKey(p) \in DOMAIN table
            THEN [table EXCEPT ![NodeUsageKey(p)] =
                    [uplink |-> @.uplink + p.up, downlink |-> @.downlink + p.down]]
            ELSE InsertRow(table, NodeUsageKey(p), [uplink |-> p.up, downlink |-> p.down])
      [] stmt = "insert_or_ignore" ->
            IF NodeUsageKey(p) \in DOMAIN table THEN table
            ELSE InsertRow(table, NodeUsageKey(p), [uplink |-> 0, downlink |-> 0])
      [] stmt = "update" ->
            IF NodeUsageUpdateKey(p) \in DOMAIN table
            THEN [table EXCEPT ![NodeUsageUpdateKey(p)] =
                    [uplink |-> @.uplink + p.up, downlink |-> @.downlink + p.down]]
            ELSE table

RECURSIVE ExecNodeUsage(_, _, _)
ExecNodeUsage(table, stmt, params) ==
    IF params = <<>> THEN table
    ELSE ExecNodeUsage(ExecNodeUsageRow(table, stmt, Head(params)), stmt, Tail(params))

\* the builder with the fallback path missing its update statement
BuildNodeWithoutUpdate(d, upsert_param) ==
    IF d = "postgresql"
    THEN <<[stmt |-> "pg_on_conflict_do_update", params |-> <<upsert_param>>]>>
    ELSE IF d = "mysql"
    THEN <<[stmt |-> "mysql_on_duplicate_key_update", params |-> <<upsert_param>>]>>
    ELSE <<[stmt |-> "insert_or_ignore", params |-> <<upsert_param>>]>>

build_node_usage_upsert(d, upsert_param) ==
    IF d = "postgresql"
    THEN <<[stmt |-> "pg_on_conflict_do_update", params |-> <<upsert_param>>]>>
    ELSE IF d = "mysql"
    THEN <<[stmt |-> "mysql_on_duplicate_key_update", params |-> <<upsert_param>>]>>
    ELSE <<[stmt |-> "insert_or_ignore", params |-> <<upsert_param>>],
           [stmt |-> "update",
            params |-> <<[up |-> upsert_param.up, down |-> upsert_param.down,
                          b_node_id |-> upsert_param.node_id,
                          b_created_at |-> upsert_param.created_at]>>]>>

RECURSIVE SumUp(_)
SumUp(params) == IF params = <<>> THEN 0 ELSE Head(params).up + SumUp(Tail(params))

RECURSIVE SumDown(_)
SumDown(params) == IF params = <<>> THEN 0 ELSE Head(params).down + SumDown(Tail(params))

\* the upsert_param dict of record_node_stats
NodeUpsertParam(params, node_id, created_at) ==
    [node_id |-> node_id, created_at |-> created_at,
     up |-> SumUp(params), down |-> SumDown(params)]

\* node_update_stmt with the node_update_params batch
ExecNodeStmt(counter, deltas) ==
    [n \in DOMAIN counter |-> IF n \in DOMAIN deltas THEN counter[n] + deltas[n] ELSE counter[n]]

----------------------------------------------------------------------------
(* Initial values *)

NoTask == [pc |-> "none", created_at |-> 0, next |-> 0]

\* Facts of hour 0 recorded by earlier cycles: present (with value p) when p > 0.
PriorUserUsages(p) ==
    [k \in (IF p = 0 THEN {} ELSE {0} \X Users \X Nodes) |-> p]

NoExec ==
    [pc |-> "idle", attempt |-> 0, max_retries |-> 0, stmt |-> "", params |-> <<>>,
     errors |-> <<>>, sleeps |-> <<>>, commits |-> 0]

NoSession == [open |-> FALSE, table |-> EmptyDict]

NoWriter == [pc |-> "none", created_at |-> 0, next |-> 0, value |-> 0]

Jobs == {"record_user_usages", "record_node_usages"}

NoSched == [j \in Jobs |-> [running |-> 0, fired |-> 0, started |-> 0, skipped |-> 0]]

NoNodeSide == [counter |-> EmptyDict, total |-> EmptyDict, coefficient |-> EmptyDict]

NoCycleStart ==
    [users |-> EmptyDict, admins |-> EmptyDict, facts |-> EmptyDict,
     uplink |-> EmptyDict, downlink |-> EmptyDict, system_uplink |-> 0, system_downlink |-> 0]

\* no scheduler and no fleet under observation
CyclesIdle ==
    /\ sched = NoSched
    /\ node_side = NoNodeSide
    /\ cycle_start = NoCycleStart
    /\ detached = <<>>

Writers == {1, 2}

\* no direct call, no concurrent writer, no safe_execute under observation
HarnessIdle ==
    /\ calls = 0
    /\ user_usages_before = EmptyDict
    /\ node_usages_before = EmptyDict
    /\ writers = [w \in Writers |-> NoWriter]
    /\ exec = NoExec
    /\ session = NoSession
    /\ CyclesIdle

EnvInit ==
    /\ HarnessIdle
    /\ dialect \in Dialects
    /\ disable_recording \in BOOLEAN
    /\ utc_hour = 0
    /\ prior \in {0, MaxPrior}

UserDbInit ==
    /\ user_used_traffic = [u \in Users |-> prior]
    /\ user_online_at = [u \in Users |-> FALSE]
    /\ admin_used_traffic = [a \in Admins |-> prior]
    /\ node_user_usages = PriorUserUsages(prior)

UserJobInit ==
    /\ user_pc = "idle"
    /\ user_error = "none"
    /\ node_response = [n \in Nodes |-> [ok |-> TRUE, stats |-> <<>>]]
    /\ api_params = EmptyDict
    /\ usage_coefficient = EmptyDict
    /\ users_usage = EmptyDict
    /\ admin_usage = EmptyDict
    /\ record_tasks = [n \in Nodes |-> NoTask]

----------------------------------------------------------------------------
(* record_user_usages *)

\* what node.get_stats(UsersStat) can answer in a cycle: an error, or one
\* counter per user, possibly zero
UserResponses ==
    {[ok |-> FALSE, stats |-> <<>>]} \cup
    {[ok |-> TRUE,
      stats |-> [u \in 1..Cardinality(Users) |->
                   [name |-> [seg |-> u, numeric |-> TRUE], value |-> f[u]]]] :
        f \in [Users -> 0..MaxRaw]}

\* what node.get_extra() can answer: with or without "usage_coefficient"
Extras ==
    {[has |-> FALSE, coeff |-> <<1, 1>>]} \cup {[has |-> TRUE, coeff |-> c] : c \in CycleCoeffs}

\* data.get("usage_coefficient", 1)
ExtraCoefficient(data) == IF data.has THEN data.coeff ELSE <<1, 1>>

StartUserCycle ==
    /\ user_pc = "idle"
    /\ node_pc = "idle"
    /\ user_pc' = "collecting"
    /\ UNCHANGED <<envVars, nodeVars, userDbVars, user_error, node_response, api_params,
                   usage_coefficient, users_usage, admin_usage, record_tasks>>

\* a get_extra task raised: gather re-raises and the invocation ends
CollectExtraRaise ==
    /\ user_pc = "collecting"
    /\ user_pc' = "raised"
    /\ user_error' = "extra"
    /\ UNCHANGED <<envVars, nodeVars, userDbVars, node_response, api_params,
                   usage_coefficient, users_usage, admin_usage, record_tasks>>

\* lines 396-406: both gathers, calculate_users_usage and the empty check
CollectAndAggregate ==
    /\ user_pc = "collecting"
    /\ \E extras \in [Nodes -> Extras], responses \in [Nodes -> UserResponses] :
         LET coefficients == [n \in Nodes |-> ExtraCoefficient(extras[n])]
             params == [n \in Nodes |-> get_users_stats(responses[n])]
             usage == calculate_users_usage(params, coefficients)
         IN /\ node_response' = responses
            /\ usage_coefficient' = coefficients
            /\ api_params' = params
            /\ users_usage' = usage
            /\ user_pc' = IF DOMAIN usage = {} THEN "returned" ELSE "aggregated"
    /\ UNCHANGED <<envVars, nodeVars, userDbVars, user_error, admin_usage, record_tasks>>

\* safe_execute(user_stmt, users_usage) returned
\* the user update followed at once by the creation of the record tasks,
\* ahead of the admin update
UpdateUsersThenRecording ==
    /\ user_pc = "aggregated"
    /\ user_used_traffic' = ExecUserStmt(user_used_traffic, users_usage)
    /\ user_online_at' = [u \in Users |-> user_online_at[u] \/ u \in DOMAIN users_usage]
    /\ user_pc' = "users_updated"
    /\ record_tasks' = [n \in Nodes |->
           IF n \in DOMAIN api_params
           THEN [pc |-> "created", created_at |-> 0, next |-> 0] ELSE NoTask]
    /\ UNCHANGED <<envVars, nodeVars, admin_used_traffic, node_user_usages, user_error, node_response,
                   api_params, usage_coefficient, users_usage, admin_usage>>

UpdateUsers ==
    /\ user_pc = "aggregated"
    /\ user_used_traffic' = ExecUserStmt(user_used_traffic, users_usage)
    /\ user_online_at' = [u \in Users |-> user_online_at[u] \/ u \in DOMAIN users_usage]
    /\ user_pc' = "users_updated"
    /\ UNCHANGED <<envVars, nodeVars, admin_used_traffic, node_user_usages, user_error, node_response,
                   api_params, usage_coefficient, users_usage, admin_usage, record_tasks>>

\* the error of safe_execute(user_stmt, users_usage) caught and logged, the
\* cycle going on with the admin totals
UpdateUsersRaiseSwallowed ==
    /\ user_pc = "aggregated"
    /\ user_pc' = "users_updated"
    /\ user_error' = "users"
    /\ UNCHANGED <<envVars, nodeVars, userDbVars, node_response, api_params,
                   usage_coefficient, users_usage, admin_usage, record_tasks>>

\* safe_execute(user_stmt, users_usage) raised
UpdateUsersRaise ==
    /\ user_pc = "aggregated"
    /\ user_pc' = "raised"
    /\ user_error' = "users"
    /\ UNCHANGED <<envVars, nodeVars, userDbVars, node_response, api_params,
                   usage_coefficient, users_usage, admin_usage, record_tasks>>

\* lines 427-436 without the test of DISABLE_RECORDING_NODE_USAGE
AfterAdminsRecordingAlways ==
    /\ user_pc' = "recording"
    /\ record_tasks' = [n \in Nodes |->
           IF n \in DOMAIN api_params
           THEN [pc |-> "created", created_at |-> 0, next |-> 0] ELSE NoTask]

\* lines 427-436: return when recording is disabled, else create the tasks
AfterAdmins ==
    IF disable_recording
    THEN /\ user_pc' = "returned"
         /\ UNCHANGED record_tasks
    ELSE /\ user_pc' = "recording"
         /\ record_tasks' = [n \in Nodes |->
                IF n \in DOMAIN api_params
                THEN [pc |-> "created", created_at |-> 0, next |-> 0] ELSE NoTask]

\* calculate_admin_usage, then safe_execute(admin_stmt, admin_data) when
\* admin_usage is not empty, and it returned
UpdateAdmins ==
    /\ user_pc = "users_updated"
    /\ LET usage == calculate_admin_usage(users_usage)
       IN /\ admin_usage' = usage
          /\ admin_used_traffic' = IF DOMAIN usage = {} THEN admin_used_traffic
                                   ELSE ExecAdminStmt(admin_used_traffic, usage)
    /\ AfterAdmins
    /\ UNCHANGED <<envVars, nodeVars, user_used_traffic, user_online_at, node_user_usages, user_error,
                   node_response, api_params, usage_coefficient, users_usage>>

\* the error of safe_execute(admin_stmt, admin_data) answered by collecting
\* again
UpdateAdminsRaiseRecollecting ==
    /\ user_pc = "users_updated"
    /\ DOMAIN calculate_admin_usage(users_usage) # {}
    /\ admin_usage' = calculate_admin_usage(users_usage)
    /\ user_pc' = "collecting"
    /\ user_error' = "admins"
    /\ UNCHANGED <<envVars, nodeVars, userDbVars, node_response, api_params,
                   usage_coefficient, users_usage, record_tasks>>

\* safe_execute(admin_stmt, admin_data) raised
UpdateAdminsRaise ==
    /\ user_pc = "users_updated"
    /\ DOMAIN calculate_admin_usage(users_usage) # {}
    /\ admin_usage' = calculate_admin_usage(users_usage)
    /\ user_pc' = "raised"
    /\ user_error' = "admins"
    /\ UNCHANGED <<envVars, nodeVars, userDbVars, node_response, api_params,
                   usage_coefficient, users_usage, record_tasks>>

\* record_user_stats up to its first statement: the empty check, created_at
\* and get_dialect
RecordUserStatsStart(n) ==
    /\ record_tasks[n].pc = "created"
    /\ record_tasks' = [record_tasks EXCEPT ![n] =
            IF api_params[n] = <<>>
            THEN [pc |-> "done", created_at |-> 0, next |-> 0]
            ELSE [pc |-> "running", created_at |-> utc_hour, next |-> 1]]
    /\ UNCHANGED <<envVars, nodeVars, userDbVars, user_pc, user_error, node_response, api_params,
                   usage_coefficient, users_usage, admin_usage>>

\* the queries built from the entries whose scaled value is not 0 only
UserQueriesSkippingZeros(n) ==
    build_node_user_usage_upsert(dialect,
        SelectSeq(UserUpsertParams(api_params[n], n, usage_coefficient[n],
                                   record_tasks[n].created_at),
                  LAMBDA p : p.value # 0))

UserQueries(n) ==
    build_node_user_usage_upsert(dialect,
        UserUpsertParams(api_params[n], n, usage_coefficient[n], record_tasks[n].created_at))

\* one safe_execute(stmt, stmt_params) of the loop returned
RecordUserStatsExec(n) ==
    /\ record_tasks[n].pc = "running"
    /\ LET q == UserQueries(n)[record_tasks[n].next]
       IN node_user_usages' = ExecUserUsage(node_user_usages, q.stmt, q.params)
    /\ record_tasks' = [record_tasks EXCEPT ![n] =
            IF @.next = Len(UserQueries(n))
            THEN [@ EXCEPT !.pc = "done"]
            ELSE [@ EXCEPT !.next = @ + 1]]
    /\ UNCHANGED <<envVars, nodeVars, user_used_traffic, user_online_at, admin_used_traffic, user_pc,
                   user_error, node_response, api_params, usage_coefficient, users_usage,
                   admin_usage>>

\* one safe_execute(stmt, stmt_params) of the loop raised
RecordUserStatsRaise(n) ==
    /\ record_tasks[n].pc = "running"
    /\ record_tasks' = [record_tasks EXCEPT ![n].pc = "failed"]
    /\ UNCHANGED <<envVars, nodeVars, userDbVars, user_pc, user_error, node_response, api_params,
                   usage_coefficient, users_usage, admin_usage>>

\* asyncio.gather(*record_tasks): every task finished
RecordGatherReturn ==
    /\ user_pc = "recording"
    /\ \A n \in Nodes : record_tasks[n].pc \in {"none", "done"}
    /\ user_pc' = "returned"
    /\ UNCHANGED <<envVars, nodeVars, userDbVars, user_error, node_response, api_params,
                   usage_coefficient, users_usage, admin_usage, record_tasks>>

\* asyncio.gather(*record_tasks): a task raised; gather re-raises at once and
\* leaves the other tasks running
RecordGatherRaise ==
    /\ user_pc = "recording"
    /\ \E n \in Nodes : record_tasks[n].pc = "failed"
    /\ user_pc' = "raised"
    /\ user_error' = "facts"
    /\ UNCHANGED <<envVars, nodeVars, userDbVars, node_response, api_params,
                   usage_coefficient, users_usage, admin_usage, record_tasks>>

UserCycleNext ==
    \/ StartUserCycle
    \/ CollectExtraRaise
    \/ CollectAndAggregate
    \/ UpdateUsers
    \/ UpdateUsersRaise
    \/ UpdateAdmins
    \/ UpdateAdminsRaise
    \/ \E n \in Nodes : RecordUserStatsStart(n)
    \/ \E n \in Nodes : RecordUserStatsExec(n)
    \/ \E n \in Nodes : RecordUserStatsRaise(n)
    \/ RecordGatherReturn
    \/ RecordGatherRaise

----------------------------------------------------------------------------
(* get_outbounds_stats *)

\* {"up": value, "down": 0} for an uplink stat, {"up": 0, "down": value}
\* otherwise, over the nonzero stats
RECURSIVE OutboundParams(_)
OutboundParams(stats) ==
    IF stats = <<>> THEN <<>>
    ELSE IF Head(stats).value = 0 THEN OutboundParams(Tail(stats))
    ELSE <<IF Head(stats).type = "uplink"
           THEN [up |-> Head(stats).value, down |-> 0]
           ELSE [up |-> 0, down |-> Head(stats).value]>> \o OutboundParams(Tail(stats))

get_outbounds_stats(response) ==
    IF ~response.ok THEN <<>> ELSE OutboundParams(response.stats)

----------------------------------------------------------------------------
(* record_node_usages *)

PriorNodeUsages(p) ==
    [k \in (IF p = 0 THEN {} ELSE {0} \X Nodes) |-> [uplink |-> p, downlink |-> p]]

NodeDbInit ==
    /\ node_uplink = [n \in Nodes |-> prior]
    /\ node_downlink = [n \in Nodes |-> prior]
    /\ system_uplink = prior * Cardinality(Nodes)
    /\ system_downlink = prior * Cardinality(Nodes)
    /\ node_usages = PriorNodeUsages(prior)

NodeJobInit ==
    /\ node_pc = "idle"
    /\ node_error = "none"
    /\ outbound_response = [n \in Nodes |-> [ok |-> TRUE, stats |-> <<>>]]
    /\ outbound_params = EmptyDict
    /\ node_record_tasks = [n \in Nodes |-> NoTask]

\* what node.get_stats(Outbounds) can answer in a cycle: an error, or the
\* counters of its outbounds (two uplink, one downlink), possibly zero
OutboundResponses ==
    {[ok |-> FALSE, stats |-> <<>>]} \cup
    {[ok |-> TRUE,
      stats |-> <<[type |-> "uplink", value |-> v[1]], [type |-> "downlink", value |-> v[2]],
                  [type |-> "uplink", value |-> v[3]]>>] :
        v \in [1..3 -> 0..MaxRaw]}

\* the uplink total of a node scaled by the node's usage coefficient
NodeTotalUpScaled(params) ==
    [n \in DOMAIN params |-> Scaled(SumUp(params[n]), CoeffGet(node_side.coefficient, n))]

NodeTotalUp(params) == [n \in DOMAIN params |-> SumUp(params[n])]
NodeTotalDown(params) == [n \in DOMAIN params |-> SumDown(params[n])]
TotalUp(params) == SumFn(NodeTotalUp(params), DOMAIN params)
TotalDown(params) == SumFn(NodeTotalDown(params), DOMAIN params)

\* the filter looking at the uplink total only
NodesWithUplink(params) == {n \in DOMAIN params : NodeTotalUp(params)[n] # 0}

\* the nodes of node_update_params
UpdatedNodes(params) ==
    {n \in DOMAIN params : NodeTotalUp(params)[n] # 0 \/ NodeTotalDown(params)[n] # 0}

StartNodeCycle ==
    /\ node_pc = "idle"
    /\ user_pc = "idle"
    /\ node_pc' = "collecting"
    /\ UNCHANGED <<envVars, userVars, nodeDbVars, node_error, outbound_response,
                   outbound_params, node_record_tasks>>

\* lines 441-464: the gather, the totals and the zero check
CollectOutbounds ==
    /\ node_pc = "collecting"
    /\ \E responses \in [Nodes -> OutboundResponses] :
         LET params == [n \in Nodes |-> get_outbounds_stats(responses[n])]
         IN /\ outbound_response' = responses
            /\ outbound_params' = params
            /\ node_pc' = IF TotalUp(params) # 0 \/ TotalDown(params) # 0
                          THEN "aggregated" ELSE "returned"
    /\ UNCHANGED <<envVars, userVars, nodeDbVars, node_error, node_record_tasks>>

\* safe_execute(node_update_stmt, node_update_params) returned (it is called
\* when node_update_params is not empty)
UpdateNodes ==
    /\ node_pc = "aggregated"
    /\ LET upd == UpdatedNodes(outbound_params)
       IN /\ node_uplink' = ExecNodeStmt(node_uplink,
                                [n \in upd |-> NodeTotalUp(outbound_params)[n]])
          /\ node_downlink' = ExecNodeStmt(node_downlink,
                                [n \in upd |-> NodeTotalDown(outbound_params)[n]])
    /\ node_pc' = "nodes_updated"
    /\ UNCHANGED <<envVars, userVars, system_uplink, system_downlink, node_usages,
                   node_error, outbound_response, outbound_params, node_record_tasks>>

\* safe_execute(node_update_stmt, node_update_params) raised
UpdateNodesRaise ==
    /\ node_pc = "aggregated"
    /\ UpdatedNodes(outbound_params) # {}
    /\ node_pc' = "raised"
    /\ node_error' = "nodes"
    /\ UNCHANGED <<envVars, userVars, nodeDbVars, outbound_response, outbound_params,
                   node_record_tasks>>

\* safe_execute(system_update_stmt) returned, then lines 486-490
UpdateSystem ==
    /\ node_pc = "nodes_updated"
    /\ system_uplink' = system_uplink + TotalUp(outbound_params)
    /\ system_downlink' = system_downlink + TotalDown(outbound_params)
    /\ IF disable_recording
       THEN /\ node_pc' = "returned"
            /\ UNCHANGED node_record_tasks
       ELSE /\ node_pc' = "recording"
            /\ node_record_tasks' = [n \in Nodes |->
                   IF n \in DOMAIN outbound_params
                   THEN [pc |-> "created", created_at |-> 0, next |-> 0] ELSE NoTask]
    /\ UNCHANGED <<envVars, userVars, node_uplink, node_downlink, node_usages, node_error,
                   outbound_response, outbound_params>>

\* safe_execute(system_update_stmt) raised
UpdateSystemRaise ==
    /\ node_pc = "nodes_updated"
    /\ node_pc' = "raised"
    /\ node_error' = "system"
    /\ UNCHANGED <<envVars, userVars, nodeDbVars, outbound_response, outbound_params,
                   node_record_tasks>>

\* record_node_stats up to its first statement
RecordNodeStatsStart(n) ==
    /\ node_record_tasks[n].pc = "created"
    /\ node_record_tasks' = [node_record_tasks EXCEPT ![n] =
            IF outbound_params[n] = <<>>
            THEN [pc |-> "done", created_at |-> 0, next |-> 0]
            ELSE [pc |-> "running", created_at |-> utc_hour, next |-> 1]]
    /\ UNCHANGED <<envVars, userVars, nodeDbVars, node_pc, node_error, outbound_response,
                   outbound_params>>

NodeQueries(n) ==
    build_node_usage_upsert(dialect,
        NodeUpsertParam(outbound_params[n], n, node_record_tasks[n].created_at))

\* one safe_execute(stmt, stmt_params) of the loop returned
RecordNodeStatsExec(n) ==
    /\ node_record_tasks[n].pc = "running"
    /\ LET q == NodeQueries(n)[node_record_tasks[n].next]
       IN node_usages' = ExecNodeUsage(node_usages, q.stmt, q.params)
    /\ node_record_tasks' = [node_record_tasks EXCEPT ![n] =
            IF @.next = Len(NodeQueries(n))
            THEN [@ EXCEPT !.pc = "done"]
            ELSE [@ EXCEPT !.next = @ + 1]]
    /\ UNCHANGED <<envVars, userVars, node_uplink, node_downlink, system_uplink,
                   system_downlink, node_pc, node_error, outbound_response, outbound_params>>

\* one safe_execute(stmt, stmt_params) of the loop raised
RecordNodeStatsRaise(n) ==
    /\ node_record_tasks[n].pc = "running"
    /\ node_record_tasks' = [node_record_tasks EXCEPT ![n].pc = "failed"]
    /\ UNCHANGED <<envVars, userVars, nodeDbVars, node_pc, node_error, outbound_response,
                   outbound_params>>

NodeGatherReturn ==
    /\ node_pc = "recording"
    /\ \A n \in Nodes : node_record_tasks[n].pc \in {"none", "done"}
    /\ node_pc' = "returned"
    /\ UNCHANGED <<envVars, userVars, nodeDbVars, node_error, outbound_response,
                   outbound_params, node_record_tasks>>

NodeGatherRaise ==
    /\ node_pc = "recording"
    /\ \E n \in Nodes : node_record_tasks[n].pc = "failed"
    /\ node_pc' = "raised"
    /\ node_error' = "facts"
    /\ UNCHANGED <<envVars, userVars, nodeDbVars, outbound_response, outbound_params,
                   node_record_tasks>>

NodeCycleNext ==
    \/ StartNodeCycle
    \/ CollectOutbounds
    \/ UpdateNodes
    \/ UpdateNodesRaise
    \/ UpdateSystem
    \/ UpdateSystemRaise
    \/ \E n \in Nodes : RecordNodeStatsStart(n)
    \/ \E n \in Nodes : RecordNodeStatsExec(n)
    \/ \E n \in Nodes : RecordNodeStatsRaise(n)
    \/ NodeGatherReturn
    \/ NodeGatherRaise

----------------------------------------------------------------------------
(* One invocation of one of the two jobs, from its start to the end of its *)
(* last task.  The jobs write disjoint tables: User, Admin and             *)
(* NodeUserUsage for record_user_usages; Node, System and NodeUsage for    *)
(* record_node_usages.                                                     *)

Init == EnvInit /\ UserDbInit /\ UserJobInit /\ NodeDbInit /\ NodeJobInit

Next == UserCycleNext \/ NodeCycleNext

Spec == Init /\ [][Next]_vars

----------------------------------------------------------------------------
(* The aggregator alone: calculate_users_usage called once on arbitrary    *)
(* entry lists and an arbitrary, possibly partial, coefficient map.        *)

AggUids == {1, 2}
AggEntries == [node : Nodes, uid : AggUids, value : 1..MaxValue]

\* the entries of node n in a list of entries tagged with their node
RECURSIVE EntriesOfNode(_, _)
EntriesOfNode(tagged, n) ==
    IF tagged = <<>> THEN <<>>
    ELSE (IF Head(tagged).node = n
          THEN <<[uid |-> Head(tagged).uid, value |-> Head(tagged).value]>> ELSE <<>>)
         \o EntriesOfNode(Tail(tagged), n)

\* api_params maps with at most MaxEntries entries in all; a node may be
\* present with an empty list
AggParams ==
    {[n \in D |-> EntriesOfNode(tagged, n)] :
        tagged \in SeqsUpTo(AggEntries, MaxEntries), D \in SUBSET Nodes}

AggInit ==
    /\ HarnessIdle
    /\ dialect = "postgresql" /\ disable_recording = FALSE /\ utc_hour = 0 /\ prior = 0
    /\ UserDbInit /\ NodeDbInit /\ NodeJobInit
    /\ user_pc = "collected"
    /\ user_error = "none"
    /\ node_response = [n \in Nodes |-> [ok |-> TRUE, stats |-> <<>>]]
    /\ api_params \in AggParams
    /\ usage_coefficient \in UNION {[D -> Coeffs] : D \in SUBSET Nodes}
    /\ users_usage = EmptyDict
    /\ admin_usage = EmptyDict
    /\ record_tasks = [n \in Nodes |-> NoTask]

CalculateUsersUsage ==
    /\ user_pc = "collected"
    /\ users_usage' = calculate_users_usage(api_params, usage_coefficient)
    /\ user_pc' = "aggregated"
    /\ UNCHANGED <<envVars, nodeVars, userDbVars, user_error, node_response, api_params,
                   usage_coefficient, admin_usage, record_tasks>>

AggNext == CalculateUsersUsage

SpecAgg == AggInit /\ [][AggNext]_vars

----------------------------------------------------------------------------
(* C1: calculate_users_usage credits each user id exactly the sum, over    *)
(* the nodes and their entries for that id, of floor(value * coefficient   *)
(* of the node), truncated per entry before summing, with coefficient 1    *)
(* for a node absent from the coefficient map; an id that appears in no    *)
(* entry gets no result.                                                   *)

EntryIndex == {<<n, i>> : n \in DOMAIN api_params, i \in 1..MaxEntries}

EntriesOf(uid) ==
    {e \in EntryIndex : e[2] <= Len(api_params[e[1]]) /\ api_params[e[1]][e[2]].uid = uid}

FloorCredit(e) ==
    LET c == IF e[1] \in DOMAIN usage_coefficient THEN usage_coefficient[e[1]] ELSE <<1, 1>>
    IN (api_params[e[1]][e[2]].value * c[1]) \div c[2]

ExpectedCredit(uid) ==
    SumFn([e \in EntriesOf(uid) |-> FloorCredit(e)], EntriesOf(uid))

C1_UsersUsageIsSumOfFloors ==
    user_pc = "aggregated" =>
        /\ DOMAIN users_usage = {uid \in AggUids \cup Users : EntriesOf(uid) # {}}
        /\ \A uid \in DOMAIN users_usage : users_usage[uid] = ExpectedCredit(uid)

\* the test's example scaled down: raw 2 at coefficient 2 on node 1 plus
\* raw 1 on node 2, which is absent from the map, credits 2*2 + 1*1 = 5
C1_Witness ==
    /\ user_pc = "aggregated"
    /\ DOMAIN api_params = {1, 2}
    /\ DOMAIN usage_coefficient = {1}
    /\ usage_coefficient[1] = <<2, 1>>
    /\ api_params[1] = <<[uid |-> 1, value |-> 2]>>
    /\ api_params[2] = <<[uid |-> 1, value |-> 1]>>
    /\ users_usage[1] = 5

----------------------------------------------------------------------------
(* What an invocation has added to the stored counters *)

UserAdded(u) == user_used_traffic[u] - prior
AdminAdded(a) == admin_used_traffic[a] - prior

OwnedBy(a) == {u \in Users : UserAdmin[u] = a}

PriorFact(k) == IF k \in DOMAIN PriorUserUsages(prior) THEN PriorUserUsages(prior)[k] ELSE 0
FactAdded(k) == node_user_usages[k] - PriorFact(k)
FactKeysOf(u) == {k \in DOMAIN node_user_usages : k[2] = u}
FactsAddedTo(u) == SumFn([k \in FactKeysOf(u) |-> FactAdded(k)], FactKeysOf(u))

UserTablesUntouched ==
    /\ user_used_traffic = [u \in Users |-> prior]
    /\ user_online_at = [u \in Users |-> FALSE]
    /\ admin_used_traffic = [a \in Admins |-> prior]
    /\ node_user_usages = PriorUserUsages(prior)

NodeTablesUntouched ==
    /\ node_uplink = [n \in Nodes |-> prior]
    /\ node_downlink = [n \in Nodes |-> prior]
    /\ system_uplink = prior * Cardinality(Nodes)
    /\ system_downlink = prior * Cardinality(Nodes)
    /\ node_usages = PriorNodeUsages(prior)

UserCycleEnded == user_pc \in {"returned", "raised"}
NodeCycleEnded == node_pc \in {"returned", "raised"}

AdminRollupMatches ==
    \A a \in Admins :
        AdminAdded(a) = SumFn([u \in OwnedBy(a) |-> UserAdded(u)], OwnedBy(a))

----------------------------------------------------------------------------
(* C2 as stated: at the end of every user-usage cycle, what was added to   *)
(* an admin's used_traffic is the sum of what was added to the             *)
(* used_traffic of the users it owns.  It fails for a cycle whose admin    *)
(* update raises after the user update has committed.                      *)

----------------------------------------------------------------------------
(* C3: after a user-usage cycle that returns with fact recording enabled,  *)
(* for every user the amounts added to that user's NodeUserUsage rows,     *)
(* summed over nodes and hours, equal the amount added to that user's      *)
(* used_traffic.                                                           *)

C3_FactsAddUpToUserTotal ==
    (user_pc = "returned" /\ ~disable_recording) =>
        \A u \in Users : FactsAddedTo(u) = UserAdded(u)

C3_Witness ==
    /\ user_pc = "returned" /\ ~disable_recording
    /\ dialect = "sqlite"
    /\ usage_coefficient[1] = <<2, 1>> /\ usage_coefficient[2] = <<1, 1>>
    /\ {<<0, 1, 1>>, <<0, 1, 2>>} \subseteq DOMAIN node_user_usages
    /\ FactAdded(<<0, 1, 1>>) = 2 /\ FactAdded(<<0, 1, 2>>) = 1
    /\ UserAdded(1) = 3

----------------------------------------------------------------------------
(* C4 as stated: at the end of every node-usage cycle the system row's     *)
(* uplink and downlink equal the sums of the nodes' uplink and downlink    *)
(* (they start equal, so the increments are equal).  It fails for a cycle  *)
(* whose system update raises after the node update has committed.         *)

SystemMatchesNodes ==
    /\ system_uplink = SumFn(node_uplink, Nodes)
    /\ system_downlink = SumFn(node_downlink, Nodes)

----------------------------------------------------------------------------
(* C5: when every node's collected stats are empty (or the call failed) or *)
(* all zero, the cycle writes nothing: no running total, no online_at and  *)
(* no fact row changes, in the user-usage and in the node-usage cycle.     *)

RECURSIVE AllZero(_)
AllZero(stats) == stats = <<>> \/ (Head(stats).value = 0 /\ AllZero(Tail(stats)))

UserStatsCollected == user_pc \notin {"idle", "collecting"} /\ user_error # "extra"
OutboundStatsCollected == node_pc \notin {"idle", "collecting"}

C5_ZeroStatsWriteNothing ==
    /\ (UserStatsCollected /\ \A n \in Nodes : AllZero(node_response[n].stats))
           => (UserTablesUntouched /\ NodeTablesUntouched /\ user_pc = "returned")
    /\ (OutboundStatsCollected /\ \A n \in Nodes : AllZero(outbound_response[n].stats))
           => (UserTablesUntouched /\ NodeTablesUntouched /\ node_pc = "returned")

C5_Witness ==
    /\ user_pc = "returned"
    /\ node_response[1].ok /\ Len(node_response[1].stats) > 0
    /\ AllZero(node_response[1].stats)
    /\ ~node_response[2].ok
    /\ UserTablesUntouched

----------------------------------------------------------------------------
(* C6 as stated: when the credited deltas of a user-usage cycle sum to     *)
(* zero, the cycle writes nothing.  It fails when a node reports a nonzero *)
(* counter that its coefficient scales down to 0: the result list is not   *)
(* empty, so the user is stamped and rows are written with delta 0.        *)

UsageSum(usage) == SumFn(usage, DOMAIN usage)

UserCycleAggregated == user_pc \notin {"idle", "collecting"} /\ user_error # "extra"

C6_ZeroSumWritesNothing ==
    (UserCycleAggregated /\ UsageSum(users_usage) = 0) => UserTablesUntouched

(* C6 amended: a zero-sum cycle changes the value of no stored counter;    *)
(* it writes nothing at all when the aggregated list is empty, and         *)
(* otherwise may only stamp online_at of the users in the list and create  *)
(* fact rows holding 0 for the reported pairs.                             *)

C6_ZeroSumAddsNothing ==
    (UserCycleAggregated /\ UsageSum(users_usage) = 0) =>
        /\ \A u \in Users : UserAdded(u) = 0
        /\ \A a \in Admins : AdminAdded(a) = 0
        /\ \A k \in DOMAIN node_user_usages : FactAdded(k) = 0
        /\ \A u \in Users : user_online_at[u] => u \in DOMAIN users_usage
        /\ DOMAIN users_usage = {} => UserTablesUntouched

C6_Witness ==
    /\ user_pc = "returned" /\ ~disable_recording
    /\ DOMAIN users_usage = {1} /\ users_usage[1] = 0
    /\ user_online_at[1]
    /\ prior = 0 /\ <<0, 1, 1>> \in DOMAIN node_user_usages
    /\ node_user_usages[<<0, 1, 1>>] = 0

----------------------------------------------------------------------------
(* The fact writers alone: record_user_stats or record_node_stats called   *)
(* directly for node 1, twice, one call after the other, on an arbitrary   *)
(* starting table, while the hour may roll over.  A behaviour calls one of *)
(* the two functions; they write different tables.                         *)

UpsertUserKeys == {<<0, u, 1>> : u \in AggUids}
UpsertUserTables == UNION {[K -> 0..MaxPrior] : K \in SUBSET UpsertUserKeys}
UpsertNodeTables ==
    {EmptyDict} \cup
    {[k \in {<<0, 1>>} |-> [uplink |-> a, downlink |-> b]] : a, b \in 0..MaxPrior}

\* lists as get_users_stats returns them: at most one entry per user
UpsertUserBatches ==
    {<<>>} \cup {<<[uid |-> u, value |-> v]>> : u \in AggUids, v \in 1..MaxValue}
           \cup {<<[uid |-> 1, value |-> v], [uid |-> 2, value |-> w]>> : v, w \in 1..MaxValue}

\* lists as get_outbounds_stats returns them: an uplink entry, a downlink entry
UpsertNodeBatches ==
    {<<>>} \cup {<<[up |-> v, down |-> 0]>> : v \in 1..MaxValue}
           \cup {<<[up |-> 0, down |-> v]>> : v \in 1..MaxValue}
           \cup {<<[up |-> v, down |-> 0], [up |-> 0, down |-> w]>> : v, w \in 1..MaxValue}

UpsertInit ==
    /\ dialect \in Dialects /\ disable_recording = FALSE /\ utc_hour = 0 /\ prior = 0
    /\ user_used_traffic = [u \in Users |-> 0]
    /\ user_online_at = [u \in Users |-> FALSE]
    /\ admin_used_traffic = [a \in Admins |-> 0]
    /\ \/ node_user_usages \in UpsertUserTables /\ node_usages = EmptyDict
       \/ node_user_usages = EmptyDict /\ node_usages \in UpsertNodeTables
    /\ node_uplink = [n \in Nodes |-> 0]
    /\ node_downlink = [n \in Nodes |-> 0]
    /\ system_uplink = 0
    /\ system_downlink = 0
    /\ UserJobInit /\ NodeJobInit
    /\ calls = 0
    /\ user_usages_before = node_user_usages
    /\ node_usages_before = node_usages
    /\ writers = [w \in Writers |-> NoWriter]
    /\ exec = NoExec
    /\ session = NoSession
    /\ CyclesIdle

\* record_user_stats(params, node_id=1) is called
CallRecordUserStats ==
    /\ calls < 2
    /\ record_tasks[1].pc \in {"none", "done"}
    /\ node_record_tasks[1].pc = "none"
    /\ \E params \in UpsertUserBatches :
         /\ api_params' = [n \in Nodes |-> IF n = 1 THEN params ELSE <<>>]
         /\ usage_coefficient' = [n \in Nodes |-> <<1, 1>>]
    /\ record_tasks' = [record_tasks EXCEPT ![1] = [pc |-> "created", created_at |-> 0, next |-> 0]]
    /\ calls' = calls + 1
    /\ user_usages_before' = node_user_usages
    /\ UNCHANGED <<dialect, disable_recording, utc_hour, prior, node_usages_before, writers,
                   execVars, cyclesVars, userDbVars, user_pc, user_error, node_response, users_usage,
                   admin_usage, nodeVars>>

\* record_node_stats(params, node_id=1) is called
CallRecordNodeStats ==
    /\ calls < 2
    /\ node_record_tasks[1].pc \in {"none", "done"}
    /\ record_tasks[1].pc = "none"
    /\ \E params \in UpsertNodeBatches :
         outbound_params' = [n \in Nodes |-> IF n = 1 THEN params ELSE <<>>]
    /\ node_record_tasks' =
           [node_record_tasks EXCEPT ![1] = [pc |-> "created", created_at |-> 0, next |-> 0]]
    /\ calls' = calls + 1
    /\ node_usages_before' = node_usages
    /\ UNCHANGED <<dialect, disable_recording, utc_hour, prior, user_usages_before, writers,
                   execVars, cyclesVars, userVars, nodeDbVars, node_pc, node_error, outbound_response>>

\* the UTC wall clock enters the next hour
HourRollover ==
    /\ utc_hour < MaxHour
    /\ utc_hour' = utc_hour + 1
    /\ UNCHANGED <<dialect, disable_recording, prior, callVars, writers, execVars, cyclesVars,
                   userVars, nodeVars>>

UpsertNext ==
    \/ CallRecordUserStats
    \/ CallRecordNodeStats
    \/ HourRollover
    \/ \E n \in Nodes : RecordUserStatsStart(n)
    \/ \E n \in Nodes : RecordUserStatsExec(n)
    \/ \E n \in Nodes : RecordNodeStatsStart(n)
    \/ \E n \in Nodes : RecordNodeStatsExec(n)

SpecUpsert == UpsertInit /\ [][UpsertNext]_vars

----------------------------------------------------------------------------
(* C7: on every dialect and from every starting table, executing in order  *)
(* the statements build_node_user_usage_upsert / build_node_usage_upsert   *)
(* return has the effect of upsert-add: a row that exists gets the delta   *)
(* added, a row that does not is created holding the delta.  So a second   *)
(* call in the same hour leaves d1 + d2, and the one-statement and the     *)
(* two-statement paths leave the same table.                               *)

BatchIndexes(batch, k) == {i \in DOMAIN batch : <<batch[i].created_at, batch[i].uid, batch[i].node_id>> = k}

UpsertAddUser(table, batch) ==
    LET keys == DOMAIN table \cup {<<batch[i].created_at, batch[i].uid, batch[i].node_id>> : i \in DOMAIN batch}
    IN [k \in keys |->
          (IF k \in DOMAIN table THEN table[k] ELSE 0)
          + SumFn([i \in BatchIndexes(batch, k) |-> batch[i].value], BatchIndexes(batch, k))]

UpsertAddNode(table, node_id, created_at, up, down) ==
    [k \in DOMAIN table \cup {<<created_at, node_id>>} |->
        IF k = <<created_at, node_id>>
        THEN [uplink |-> (IF k \in DOMAIN table THEN table[k].uplink ELSE 0) + up,
              downlink |-> (IF k \in DOMAIN table THEN table[k].downlink ELSE 0) + down]
        ELSE table[k]]

LastUserBatch ==
    [i \in DOMAIN api_params[1] |->
        [uid |-> api_params[1][i].uid, value |-> api_params[1][i].value,
         node_id |-> 1, created_at |-> record_tasks[1].created_at]]

C7_UpsertAddOnEveryDialect ==
    /\ record_tasks[1].pc = "done" =>
           node_user_usages = UpsertAddUser(user_usages_before, LastUserBatch)
    /\ node_record_tasks[1].pc = "done" =>
           node_usages = IF outbound_params[1] = <<>> THEN node_usages_before
                         ELSE UpsertAddNode(node_usages_before, 1,
                                            node_record_tasks[1].created_at,
                                            SumUp(outbound_params[1]),
                                            SumDown(outbound_params[1]))

\* two calls in hour 0 on the two-statement path: the row did not exist,
\* the first call left d1 = 1, the second added d2 = 2
C7_Witness ==
    /\ dialect = "sqlite" /\ calls = 2 /\ utc_hour = 0
    /\ record_tasks[1].pc = "done"
    /\ api_params[1] = <<[uid |-> 1, value |-> 2]>>
    /\ <<0, 1, 1>> \in DOMAIN user_usages_before
    /\ user_usages_before[<<0, 1, 1>>] = 1
    /\ <<0, 2, 1>> \notin DOMAIN node_user_usages
    /\ node_user_usages[<<0, 1, 1>>] = 3

----------------------------------------------------------------------------
(* Two concurrent calls of record_user_stats for the same user, node and   *)
(* hour: each statement is one safe_execute, hence one transaction, and    *)
(* the statements of the two calls interleave freely.                      *)

WriterKey == <<0, 1, 1>>

WritersInit ==
    /\ dialect \in Dialects /\ disable_recording = FALSE /\ utc_hour = 0 /\ prior = 0
    /\ user_used_traffic = [u \in Users |-> 0]
    /\ user_online_at = [u \in Users |-> FALSE]
    /\ admin_used_traffic = [a \in Admins |-> 0]
    /\ node_user_usages \in UpsertUserTables
    /\ NodeDbInit /\ UserJobInit /\ NodeJobInit
    /\ calls = 0
    /\ user_usages_before = node_user_usages
    /\ node_usages_before = EmptyDict
    /\ writers \in [Writers -> {[pc |-> "created", created_at |-> 0, next |-> 0, value |-> v] :
                                   v \in 1..MaxValue}]
    /\ exec = NoExec
    /\ session = NoSession
    /\ CyclesIdle

WriterQueries(w) ==
    build_node_user_usage_upsert(dialect,
        UserUpsertParams(<<[uid |-> WriterKey[2], value |-> writers[w].value]>>,
                         WriterKey[3], <<1, 1>>, writers[w].created_at))

writerFrame == <<dialect, disable_recording, utc_hour, prior, callVars, execVars, cyclesVars,
                 user_used_traffic, user_online_at, admin_used_traffic, userJobVars, nodeVars>>

\* record_user_stats up to its first statement
WriterStart(w) ==
    /\ writers[w].pc = "created"
    /\ writers' = [writers EXCEPT ![w].pc = "running", ![w].created_at = utc_hour,
                                  ![w].next = 1]
    /\ UNCHANGED <<writerFrame, node_user_usages>>

\* one safe_execute(stmt, stmt_params) of the loop returned
WriterExec(w) ==
    /\ writers[w].pc = "running"
    /\ LET q == WriterQueries(w)[writers[w].next]
       IN node_user_usages' = ExecUserUsage(node_user_usages, q.stmt, q.params)
    /\ writers' = [writers EXCEPT ![w] =
            IF @.next = Len(WriterQueries(w))
            THEN [@ EXCEPT !.pc = "done"]
            ELSE [@ EXCEPT !.next = @ + 1]]
    /\ UNCHANGED writerFrame

\* one safe_execute(stmt, stmt_params) of the loop raised
WriterRaise(w) ==
    /\ writers[w].pc = "running"
    /\ writers' = [writers EXCEPT ![w].pc = "failed"]
    /\ UNCHANGED <<writerFrame, node_user_usages>>

WritersNext ==
    \/ \E w \in Writers : WriterStart(w)
    \/ \E w \in Writers : WriterExec(w)
    \/ \E w \in Writers : WriterRaise(w)

SpecWriters == WritersInit /\ [][WritersNext]_vars

----------------------------------------------------------------------------
(* C8: with two writers applying the fact upsert to the same (user, node,  *)
(* hour) key, in every interleaving of their statements the stored value   *)
(* is at all times the prior value plus the deltas of the writers that     *)
(* have finished, so it ends at prior + d1 + d2: no delta is lost, no      *)
(* concurrently written value is overwritten, and no other row changes.    *)

StoredAt(table, k) == IF k \in DOMAIN table THEN table[k] ELSE 0

FinishedWriters == {w \in Writers : writers[w].pc = "done"}

C8_ConcurrentUpsertsLoseNothing ==
    /\ StoredAt(node_user_usages, WriterKey)
         = StoredAt(user_usages_before, WriterKey)
           + SumFn([w \in FinishedWriters |-> writers[w].value], FinishedWriters)
    /\ \A k \in DOMAIN user_usages_before \ {WriterKey} :
         k \in DOMAIN node_user_usages /\ node_user_usages[k] = user_usages_before[k]

C8_Witness ==
    /\ dialect = "sqlite"
    /\ FinishedWriters = Writers
    /\ writers[1].value = 1 /\ writers[2].value = 2
    /\ WriterKey \in DOMAIN user_usages_before /\ user_usages_before[WriterKey] = 1
    /\ node_user_usages[WriterKey] = 4

----------------------------------------------------------------------------
(* safe_execute, one call followed step by step: the retry loop, the       *)
(* session of each attempt, the classification of a failure, the backoff.  *)

DefaultMaxRetries == 5

MaxRetriesArgs == (0 - 1)..DefaultMaxRetries

\* The exceptions an attempt can end with.  db: an OperationalError or
\* DatabaseError; orig_args0: err.orig.args[0] when it is an integer (NULL
\* when orig has no args or a first argument of another type); orig_code:
\* err.orig.code ("" when absent); phrases: what str(err) contains.
MySQLDeadlock ==
    [db |-> TRUE, orig_args0 |-> 1213, orig_code |-> "", phrases |-> {"Deadlock found"}]

MySQLLockWait ==
    [db |-> TRUE, orig_args0 |-> 1205, orig_code |-> "",
     phrases |-> {"Lock wait timeout exceeded"}]

PgDeadlock ==
    [db |-> TRUE, orig_args0 |-> NULL, orig_code |-> "40P01", phrases |-> {"deadlock detected"}]

SqliteLocked ==
    [db |-> TRUE, orig_args0 |-> NULL, orig_code |-> "", phrases |-> {"database is locked"}]

IntegrityViolation ==
    [db |-> TRUE, orig_args0 |-> NULL, orig_code |-> "23505", phrases |-> {"duplicate key"}]

InterfaceFailure ==
    [db |-> FALSE, orig_args0 |-> NULL, orig_code |-> "", phrases |-> {"connection closed"}]

Errors ==
    {MySQLDeadlock, MySQLLockWait, PgDeadlock, SqliteLocked, IntegrityViolation,
     InterfaceFailure}

\* err.orig.args[0] == 1213 or err.orig.args[0] == 1205
is_mysql_deadlock_or_lock_wait(err) == err.orig_args0 \in {1213, 1205}

is_mysql_deadlock(err) == err.orig_args0 = 1213

is_pg_deadlock(err) == err.orig_code = "40P01"

is_sqlite_locked(err) == "database is locked" \in err.phrases

Pow2(n) == IF n <= 0 THEN 1 ELSE 2 ^ n

\* milliseconds; random.uniform(0, base_delay * 0.5) by its two extremes
DeadlockDelays(attempt) ==
    {50 * Pow2(attempt) + jitter : jitter \in {0, (50 * Pow2(attempt)) \div 2}}

LockedDelay(attempt) == 100 * (attempt + 1)

\* if attempt < max_retries - 1; the variant also lets the last attempt sleep
HasRetryBudgetOnLastAttempt(e) == e.attempt < e.max_retries

HasRetryBudget(e) == e.attempt < e.max_retries - 1

\* commit, then the return that leaves the loop; the variant commits and
\* goes round the loop again
AfterCommitContinuing(e) ==
    [e EXCEPT !.pc = "loop", !.attempt = @ + 1, !.commits = @ + 1]

AfterCommit(e) == [e EXCEPT !.pc = "returned", !.commits = @ + 1]

ExecBatches ==
    {<<[uid |-> 1, value |-> v]>> : v \in 1..MaxValue}
        \cup {<<[uid |-> 1, value |-> 1], [uid |-> 2, value |-> v]>> : v \in 1..MaxValue}

ExecTables == {EmptyDict} \cup {[k \in {<<0, 1, 1>>} |-> p] : p \in 1..MaxPrior}

ExecInit ==
    /\ dialect \in Dialects /\ disable_recording = FALSE /\ utc_hour = 0 /\ prior = 0
    /\ user_used_traffic = [u \in Users |-> 0]
    /\ user_online_at = [u \in Users |-> FALSE]
    /\ admin_used_traffic = [a \in Admins |-> 0]
    /\ node_user_usages \in ExecTables
    /\ NodeDbInit /\ UserJobInit /\ NodeJobInit
    /\ calls = 0
    /\ user_usages_before = node_user_usages
    /\ node_usages_before = EmptyDict
    /\ writers = [w \in Writers |-> NoWriter]
    /\ exec = NoExec
    /\ session = NoSession
    /\ CyclesIdle

execFrame == <<dialect, disable_recording, utc_hour, prior, callVars, writers, cyclesVars,
               user_used_traffic, user_online_at, admin_used_traffic, userJobVars, nodeVars>>

\* safe_execute(stmt, params, max_retries) is called with one statement of
\* the fact upsert.  On mysql the statement carries ON DUPLICATE KEY UPDATE,
\* so lines 205-208 leave it without the IGNORE prefix.
SafeExecuteCall ==
    /\ exec.pc = "idle"
    /\ \E batch \in ExecBatches, m \in MaxRetriesArgs :
         LET queries == build_node_user_usage_upsert(dialect,
                            UserUpsertParams(batch, 1, <<1, 1>>, utc_hour))
         IN \E i \in 1..Len(queries) :
              exec' = [NoExec EXCEPT !.pc = "loop", !.max_retries = m,
                                     !.stmt = queries[i].stmt,
                                     !.params = queries[i].params]
    /\ UNCHANGED <<execFrame, session, node_user_usages>>

\* for attempt in range(max_retries): async with GetDB() as db
AttemptBegin ==
    /\ exec.pc = "loop"
    /\ exec.attempt < exec.max_retries
    /\ session' = [open |-> TRUE, table |-> node_user_usages]
    /\ exec' = [exec EXCEPT !.pc = "session"]
    /\ UNCHANGED <<execFrame, node_user_usages>>

\* range(max_retries) is exhausted: the function falls off its end
LoopExhausted ==
    /\ exec.pc = "loop"
    /\ ~(exec.attempt < exec.max_retries)
    /\ exec' = [exec EXCEPT !.pc = "returned"]
    /\ UNCHANGED <<execFrame, session, node_user_usages>>

\* (await db.connection()).execute(stmt, params) returned
ExecuteOk ==
    /\ exec.pc = "session"
    /\ session' = [session EXCEPT !.table = ExecUserUsage(@, exec.stmt, exec.params)]
    /\ exec' = [exec EXCEPT !.pc = "executed"]
    /\ UNCHANGED <<execFrame, node_user_usages>>

\* execute raised and the error is handled inside the async with block,
\* the session still open
ExecuteFailCaughtInside ==
    /\ exec.pc = "session"
    /\ \E err \in Errors, j \in 0..(Len(exec.params) - 1) :
         /\ session' = [session EXCEPT !.table =
                            ExecUserUsage(@, exec.stmt, SubSeq(exec.params, 1, j))]
         /\ exec' = [exec EXCEPT !.pc = IF err.db THEN "caught" ELSE "raised",
                                 !.errors = Append(@, err)]
    /\ UNCHANGED <<execFrame, node_user_usages>>

\* execute raised after the first j rows of the batch
ExecuteFail ==
    /\ exec.pc = "session"
    /\ \E err \in Errors, j \in 0..(Len(exec.params) - 1) :
         /\ session' = [session EXCEPT !.table =
                            ExecUserUsage(@, exec.stmt, SubSeq(exec.params, 1, j))]
         /\ exec' = [exec EXCEPT !.pc = "failing", !.errors = Append(@, err)]
    /\ UNCHANGED <<execFrame, node_user_usages>>

\* db.commit() returned, the session is left, return
CommitOk ==
    /\ exec.pc = "executed"
    /\ node_user_usages' = session.table
    /\ session' = NoSession
    /\ exec' = AfterCommit(exec)
    /\ UNCHANGED execFrame

\* db.commit() raised
CommitFail ==
    /\ exec.pc = "executed"
    /\ \E err \in Errors :
         exec' = [exec EXCEPT !.pc = "failing", !.errors = Append(@, err)]
    /\ UNCHANGED <<execFrame, session, node_user_usages>>

\* The exception leaves the async with block: the session is rolled back
\* and closed; the except clause catches database errors only.
SessionExit ==
    /\ exec.pc = "failing"
    /\ session' = NoSession
    /\ exec' = [exec EXCEPT !.pc =
                    IF exec.errors[Len(exec.errors)].db THEN "caught" ELSE "raised"]
    /\ UNCHANGED <<execFrame, node_user_usages>>

\* except (OperationalError, DatabaseError) as err
HandleError ==
    /\ exec.pc = "caught"
    /\ LET err == exec.errors[Len(exec.errors)]
       IN IF HasRetryBudget(exec) /\ (is_mysql_deadlock(err) \/ is_pg_deadlock(err))
          THEN \E delay \in DeadlockDelays(exec.attempt) :
                  exec' = [exec EXCEPT !.pc = "sleeping", !.sleeps = Append(@, delay)]
          ELSE IF HasRetryBudget(exec) /\ is_sqlite_locked(err)
          THEN exec' = [exec EXCEPT !.pc = "sleeping",
                                    !.sleeps = Append(@, LockedDelay(exec.attempt))]
          ELSE exec' = [exec EXCEPT !.pc = "raised"]
    /\ UNCHANGED <<execFrame, session, node_user_usages>>

\* asyncio.sleep returned; continue
Wake ==
    /\ exec.pc = "sleeping"
    /\ exec' = [exec EXCEPT !.pc = "loop", !.attempt = @ + 1]
    /\ UNCHANGED <<execFrame, session, node_user_usages>>

ExecNext ==
    \/ SafeExecuteCall
    \/ AttemptBegin
    \/ LoopExhausted
    \/ ExecuteOk
    \/ ExecuteFail
    \/ CommitOk
    \/ CommitFail
    \/ SessionExit
    \/ HandleError
    \/ Wake

SpecExec == ExecInit /\ [][ExecNext]_vars

----------------------------------------------------------------------------
(* C9: when the first k < max_retries attempts of safe_execute fail with a *)
(* classified deadlock or lock error and attempt k+1 succeeds, the call    *)
(* returns normally and the database holds exactly one application of the  *)
(* batch: until the successful commit the table is as it was before the    *)
(* call (failed attempts leave no visible change), and the batch is        *)
(* committed once, not twice.                                              *)

LastError == exec.errors[Len(exec.errors)]

Classified(err) ==
    err.db /\ (err.orig_args0 = 1213 \/ err.orig_code = "40P01"
                 \/ "database is locked" \in err.phrases)

RetriedThenSucceeded ==
    /\ exec.pc = "returned"
    /\ exec.max_retries >= 1
    /\ Len(exec.errors) < exec.max_retries
    /\ \A i \in 1..Len(exec.errors) : Classified(exec.errors[i])

C9_RetryThenSucceedCommitsOnce ==
    /\ exec.pc \in {"loop", "session", "executed", "failing", "caught", "sleeping", "raised"}
         => node_user_usages = user_usages_before /\ exec.commits = 0
    /\ RetriedThenSucceeded
         => /\ node_user_usages
                 = ExecUserUsage(user_usages_before, exec.stmt, exec.params)
            /\ exec.commits = 1
            /\ exec.attempt = Len(exec.errors)
            /\ Len(exec.sleeps) = Len(exec.errors)

C9_Witness ==
    /\ RetriedThenSucceeded
    /\ exec.errors = <<MySQLDeadlock, MySQLDeadlock>>
    /\ exec.attempt = 2
    /\ exec.max_retries = DefaultMaxRetries
    /\ exec.stmt = "mysql_on_duplicate_key_update"
    /\ user_usages_before = [k \in {<<0, 1, 1>>} |-> 1]
    /\ node_user_usages[<<0, 1, 1>>] = 1 + exec.params[1].value

----------------------------------------------------------------------------
(* C10: a database error that is none of MySQL 1213, PostgreSQL 40P01 or   *)
(* "database is locked" is raised by the attempt it occurs in, so on the   *)
(* first attempt it is raised with no sleep and no second attempt, for     *)
(* every max_retries >= 1: no sleep follows it, the attempt counter does   *)
(* not advance, and the handler's only step is to raise.                   *)

NotTransient(err) ==
    /\ err.orig_args0 # 1213
    /\ err.orig_code # "40P01"
    /\ "database is locked" \notin err.phrases

EndedByNotTransient == exec.errors # <<>> /\ NotTransient(LastError)

C10_NonRetryableRaisedAtOnce ==
    /\ [](EndedByNotTransient
            => /\ exec.pc \in {"failing", "caught", "raised"}
               /\ Len(exec.sleeps) = Len(exec.errors) - 1
               /\ exec.attempt = Len(exec.errors) - 1)
    /\ [][(EndedByNotTransient /\ exec.pc \in {"failing", "caught"})
            => (exec'.pc \in {"caught", "raised"} /\ exec'.sleeps = exec.sleeps
                /\ exec'.attempt = exec.attempt /\ exec'.errors = exec.errors)]_vars

C10_Witness ==
    /\ exec.pc = "raised"
    /\ exec.errors = <<IntegrityViolation>>
    /\ exec.attempt = 0
    /\ exec.sleeps = <<>>
    /\ exec.max_retries = DefaultMaxRetries

----------------------------------------------------------------------------
(* C11: with max_retries = n >= 1, safe_execute makes at most n execution  *)
(* attempts; when all n attempts fail with transient contention errors,    *)
(* the error of the n-th attempt is propagated to the caller, and no       *)
(* further attempt and no sleep follows it.                                *)

AttemptsBegun == IF exec.pc \in {"idle", "loop"} THEN exec.attempt ELSE exec.attempt + 1

AllAttemptsFailed == exec.max_retries >= 1 /\ Len(exec.errors) = exec.max_retries

C11_AtMostMaxRetriesAttempts ==
    /\ [](exec.max_retries >= 1
            => /\ AttemptsBegun <= exec.max_retries
               /\ Len(exec.errors) <= exec.max_retries
               /\ Len(exec.sleeps) <= exec.max_retries - 1)
    /\ [](AllAttemptsFailed
            => /\ exec.pc \in {"failing", "caught", "raised"}
               /\ Len(exec.sleeps) = exec.max_retries - 1
               /\ exec.commits = 0)
    /\ [][(AllAttemptsFailed /\ exec.pc \in {"failing", "caught"})
            => (exec'.pc \in {"caught", "raised"} /\ exec'.sleeps = exec.sleeps
                /\ exec'.attempt = exec.attempt /\ exec'.errors = exec.errors)]_vars

C11_Witness ==
    /\ exec.pc = "raised"
    /\ exec.max_retries = 3
    /\ exec.errors = <<PgDeadlock, SqliteLocked, MySQLDeadlock>>
    /\ Len(exec.sleeps) = 2
    /\ node_user_usages = user_usages_before

----------------------------------------------------------------------------
(* C12: a MySQL lock-wait timeout (error 1205) raised by an attempt is     *)
(* treated as transient contention: while retry budget remains,            *)
(* safe_execute sleeps and retries, and the caller sees no error.          *)

LockWaitWithBudgetLeft ==
    /\ exec.errors # <<>>
    /\ LastError.db /\ LastError.orig_args0 = 1205
    /\ Len(exec.errors) < exec.max_retries

C12_LockWaitTimeoutIsRetried ==
    LockWaitWithBudgetLeft =>
        (exec.pc # "raised" /\ Len(exec.sleeps) >= Len(exec.errors) - 1)

----------------------------------------------------------------------------
(* The two collectors alone: one task per node, on responses drawn from a  *)
(* wider set.  A counter name carries the spelling of its id segment: "1"  *)
(* and "01" are two texts that int() parses to the same id.  A failed      *)
(* response carries the exception and the counters received before it.     *)
(* A behaviour collects either the per-user or the outbound counters.      *)

StatNames ==
    {[seg |-> 1, numeric |-> TRUE, spelling |-> "1"],
     [seg |-> 1, numeric |-> TRUE, spelling |-> "01"],
     [seg |-> 2, numeric |-> TRUE, spelling |-> "2"],
     [seg |-> 0, numeric |-> FALSE, spelling |-> "x"]}

UserStats == [name : StatNames, value : 0..MaxRaw]

OutboundStats == [type : {"uplink", "downlink"}, value : 0..MaxRaw]

CollectorErrors == {"NodeAPIError", "Exception"}

CollectResponses(stats, n) ==
    {[ok |-> TRUE, error |-> "", stats |-> st] : st \in SeqsUpTo(stats, n)}
        \cup {[ok |-> FALSE, error |-> e, stats |-> st] :
                 e \in CollectorErrors, st \in SeqsUpTo(stats, 1)}

\* node 1 answers with up to MaxStats counters, its sibling with at most one
CollectInit ==
    /\ HarnessIdle
    /\ dialect = "sqlite" /\ disable_recording = FALSE /\ utc_hour = 0 /\ prior = 0
    /\ UserDbInit /\ NodeDbInit
    /\ user_error = "none" /\ node_error = "none"
    /\ api_params = EmptyDict /\ outbound_params = EmptyDict
    /\ usage_coefficient = EmptyDict /\ users_usage = EmptyDict /\ admin_usage = EmptyDict
    /\ record_tasks = [n \in Nodes |-> NoTask]
    /\ node_record_tasks = [n \in Nodes |-> NoTask]
    /\ \/ /\ user_pc = "collecting" /\ node_pc = "idle"
          /\ node_response \in [Nodes -> CollectResponses(UserStats, MaxStats)]
          /\ \A n \in Nodes \ {1} : Len(node_response[n].stats) <= 1
          /\ outbound_response = [n \in Nodes |-> [ok |-> TRUE, stats |-> <<>>]]
       \/ /\ user_pc = "idle" /\ node_pc = "collecting"
          /\ outbound_response \in [Nodes -> CollectResponses(OutboundStats, MaxStats)]
          /\ \A n \in Nodes \ {1} : Len(outbound_response[n].stats) <= 1
          /\ node_response = [n \in Nodes |-> [ok |-> TRUE, stats |-> <<>>]]

\* the task of get_users_stats(node) ends
CollectUsersStats(n) ==
    /\ user_pc = "collecting"
    /\ n \notin DOMAIN api_params
    /\ api_params' = [m \in DOMAIN api_params \cup {n} |->
                        IF m = n THEN get_users_stats(node_response[n]) ELSE api_params[m]]
    /\ UNCHANGED <<envVars, userDbVars, nodeVars, user_pc, user_error, node_response,
                   usage_coefficient, users_usage, admin_usage, record_tasks>>

\* the task of get_outbounds_stats(node) ends
CollectOutboundsStats(n) ==
    /\ node_pc = "collecting"
    /\ n \notin DOMAIN outbound_params
    /\ outbound_params' = [m \in DOMAIN outbound_params \cup {n} |->
                              IF m = n THEN get_outbounds_stats(outbound_response[n])
                              ELSE outbound_params[m]]
    /\ UNCHANGED <<envVars, userVars, nodeDbVars, node_pc, node_error, outbound_response,
                   node_record_tasks>>

CollectNext ==
    \/ \E n \in Nodes : CollectUsersStats(n)
    \/ \E n \in Nodes : CollectOutboundsStats(n)

SpecCollect == CollectInit /\ [][CollectNext]_vars

----------------------------------------------------------------------------
(* C13: get_users_stats and get_outbounds_stats never raise: a node whose  *)
(* RPC or parsing ended in a node API error or any other exception yields  *)
(* the empty list, and what the other nodes yield in the same cycle is     *)
(* decided by their own responses alone.                                   *)

CountedUserStats(stats) ==
    {i \in 1..Len(stats) : stats[i].value # 0 /\ stats[i].name.numeric}

NonzeroStats(stats) == {i \in 1..Len(stats) : stats[i].value # 0}

C13_CollectorsFailSoft ==
    /\ \A n \in DOMAIN api_params :
         IF node_response[n].ok
         THEN (api_params[n] = <<>>)
                 <=> (CountedUserStats(node_response[n].stats) = {})
         ELSE api_params[n] = <<>>
    /\ \A n \in DOMAIN outbound_params :
         IF outbound_response[n].ok
         THEN Len(outbound_params[n])
                 = Cardinality(NonzeroStats(outbound_response[n].stats))
         ELSE outbound_params[n] = <<>>

C13_Witness ==
    /\ DOMAIN api_params = Nodes
    /\ ~node_response[1].ok /\ node_response[1].error = "Exception"
    /\ CountedUserStats(node_response[1].stats) # {}
    /\ api_params[1] = <<>>
    /\ node_response[2].ok /\ api_params[2] # <<>>

----------------------------------------------------------------------------
(* C19: get_users_stats returns one entry per user id that parses as an    *)
(* integer, holding the sum of the values of all nonzero counters whose    *)
(* name segment before the first "." is that id; a counter whose segment   *)
(* is not an integer is dropped and the valid entries are still returned.  *)

StatsOfUser(stats, uid) ==
    {k \in 1..Len(stats) : stats[k].name.numeric /\ stats[k].name.seg = uid}

C19_UsersStatsSummedPerUser ==
    \A n \in DOMAIN api_params :
        node_response[n].ok =>
            LET r == api_params[n]
                st == node_response[n].stats
            IN /\ \A i, j \in 1..Len(r) : i # j => r[i].uid # r[j].uid
               /\ {r[i].uid : i \in 1..Len(r)}
                    = {st[k].name.seg : k \in CountedUserStats(st)}
               /\ \A i \in 1..Len(r) :
                    r[i].value = SumFn([k \in StatsOfUser(st, r[i].uid) |-> st[k].value],
                                       StatsOfUser(st, r[i].uid))

----------------------------------------------------------------------------
(* C14: in the user-usage cycle a failing or timed-out call to one node,   *)
(* the extra-info fetch or the per-user stats fetch, never aborts the      *)
(* cycle: the invocation does not end at the collection with an error,     *)
(* the failed node contributes no data, and the deltas of the other nodes  *)
(* are still aggregated.                                                   *)

HealthyNodesReported ==
    \E n \in Nodes : node_response[n].ok /\ ~AllZero(node_response[n].stats)

C14_NodeCallFailureNeverAbortsCycle ==
    /\ user_error # "extra"
    /\ UserStatsCollected =>
         /\ \A n \in Nodes : ~node_response[n].ok => api_params[n] = <<>>
         /\ HealthyNodesReported => DOMAIN users_usage # {}

----------------------------------------------------------------------------
(* Several invocations of the two jobs under the scheduler, interleaved.   *)
(* The nodes keep one counter per user, which traffic raises and a         *)
(* get_stats call with reset=True hands out and zeroes.  An invocation     *)
(* that ended is gone with its locals; its record tasks are let finish     *)
(* before the job is seen to end.                                          *)

MaxInstances == 1

UserJob == "record_user_usages"
NodeJob == "record_node_usages"

\* the (node, user) pairs that carry traffic
CounterKeys == {<<1, 1>>, <<2, 1>>}

\* a deployment on PostgreSQL with recording on (the statement pairs SQLite
\* needs are followed one invocation at a time under Spec)
CyclesInit ==
    /\ dialect = "postgresql"
    /\ disable_recording = FALSE
    /\ utc_hour = 0 /\ prior = 0
    /\ calls = 0 /\ user_usages_before = EmptyDict /\ node_usages_before = EmptyDict
    /\ writers = [w \in Writers |-> NoWriter]
    /\ exec = NoExec /\ session = NoSession
    /\ UserDbInit /\ UserJobInit /\ NodeDbInit /\ NodeJobInit
    /\ sched = NoSched
    /\ \E c \in {<<1, 1>>, <<1, 2>>} :
         node_side = [counter |-> [k \in CounterKeys |-> 0],
                      total |-> [u \in Users |-> 0],
                      coefficient |-> [n \in Nodes |-> IF n = 1 THEN c ELSE <<1, 1>>]]
    /\ cycle_start = NoCycleStart
    /\ detached = <<>>

\* a user moves one unit of traffic through a node.  Traffic commutes with
\* every step but the read of the counters, so it is followed only right
\* before that read: what arrives at another time is seen by the next one.
Traffic(k) ==
    /\ user_pc = "collecting"
    /\ node_side.counter[k] < MaxRaw
    /\ node_side.total[k[2]] < MaxTraffic
    /\ node_side' = [node_side EXCEPT !.counter[k] = @ + 1, !.total[k[2]] = @ + 1]
    /\ UNCHANGED <<dialect, disable_recording, utc_hour, prior, callVars, writers, execVars,
                   sched, cycle_start, detached, userVars, nodeVars>>

\* the scheduler with max_instances=2
CanStartSecondInstance(j) == sched[j].running < MaxInstances + 1

\* max_instances=1: a firing starts the job unless an instance is running
CanStart(j) == sched[j].running < MaxInstances

JobStarted(j) ==
    [sched EXCEPT ![j].fired = @ + 1, ![j].running = @ + 1, ![j].started = @ + 1]

\* the firing is skipped: coalesce=True keeps nothing to run later
JobSkipped(j) == [sched EXCEPT ![j].fired = @ + 1, ![j].skipped = @ + 1]

JobEnded(j) == [sched EXCEPT ![j].running = @ - 1]

\* reset=True: the node zeroes the counters it hands out; the variant reads
\* them and leaves them standing
CountersAfterReadWithoutReset(counter, n) == counter

CountersAfterRead(counter, n) ==
    [k \in DOMAIN counter |-> IF k[1] = n THEN 0 ELSE counter[k]]

\* the UsersStat response of node n: one counter per user it serves
StatsOfCounters(counter, n) ==
    LET served == SelectSeq(<<1, 2, 3>>, LAMBDA u : <<n, u>> \in DOMAIN counter)
    IN [i \in 1..Len(served) |->
          [name |-> [seg |-> served[i], numeric |-> TRUE], value |-> counter[<<n, served[i]>>]]]

cyclesFrame == <<dialect, disable_recording, utc_hour, prior, callVars, writers, execVars>>

\* the interval trigger of record_user_usages fires
FiringsSoFar == sched[UserJob].fired + sched[NodeJob].fired

FireUserJob ==
    /\ FiringsSoFar < MaxFirings
    /\ IF CanStart(UserJob)
       THEN /\ sched' = JobStarted(UserJob)
            /\ user_pc' = "collecting"
            /\ cycle_start' = [cycle_start EXCEPT !.users = user_used_traffic,
                                                  !.admins = admin_used_traffic,
                                                  !.facts = node_user_usages]
            /\ UNCHANGED <<user_error, node_response, api_params, usage_coefficient,
                           users_usage, admin_usage, record_tasks>>
       ELSE /\ sched' = JobSkipped(UserJob)
            /\ UNCHANGED <<userJobVars, cycle_start>>
    /\ UNCHANGED <<cyclesFrame, node_side, detached, userDbVars, nodeVars>>

\* lines 396-406 against the fleet: get_extra answers with the node's
\* coefficient; get_stats hands out the counters, fails before the node
\* served it, or (node 1) fails after the node zeroed them
CycleCollectUsers ==
    /\ user_pc = "collecting"
    /\ \E outcome \in [Nodes -> {"ok", "failed", "lost"}] :
         LET responses == [n \in Nodes |->
                 IF outcome[n] = "ok"
                 THEN [ok |-> TRUE, stats |-> StatsOfCounters(node_side.counter, n)]
                 ELSE [ok |-> FALSE, stats |-> <<>>]]
             params == [n \in Nodes |-> get_users_stats(responses[n])]
             usage == calculate_users_usage(params, node_side.coefficient)
             read == {n \in Nodes : outcome[n] # "failed"}
         IN /\ \A n \in Nodes \ {1} : outcome[n] # "lost"
            /\ node_response' = responses
            /\ usage_coefficient' = node_side.coefficient
            /\ api_params' = params
            /\ users_usage' = usage
            /\ user_pc' = IF DOMAIN usage = {} THEN "returned" ELSE "aggregated"
            /\ node_side' = [node_side EXCEPT !.counter =
                    [k \in DOMAIN @ |->
                        IF k[1] \in read THEN CountersAfterRead(@, k[1])[k] ELSE @[k]]]
    /\ UNCHANGED <<cyclesFrame, sched, cycle_start, detached, nodeVars, userDbVars,
                   user_error, admin_usage, record_tasks>>

\* the tasks of an invocation that gather left running when it re-raised:
\* each keeps the arguments it was created with
LeftBehind(job, tasks, params, coeff) ==
    LET left == SelectSeq(<<1, 2>>, LAMBDA n : tasks[n].pc \in {"created", "running"})
    IN [i \in 1..Len(left) |->
          [job |-> job, node |-> left[i], params |-> params[left[i]],
           coeff |-> coeff[left[i]], task |-> tasks[left[i]]]]

\* the coroutine of record_user_usages has ended; the record tasks that were
\* still pending when gather raised go on without it
FinishUserJob ==
    /\ user_pc \in {"returned", "raised"}
    /\ detached' = detached \o LeftBehind(UserJob, record_tasks, api_params, usage_coefficient)
    /\ sched' = JobEnded(UserJob)
    /\ user_pc' = "idle"
    /\ user_error' = "none"
    /\ node_response' = [n \in Nodes |-> [ok |-> TRUE, stats |-> <<>>]]
    /\ api_params' = EmptyDict
    /\ usage_coefficient' = EmptyDict
    /\ users_usage' = EmptyDict
    /\ admin_usage' = EmptyDict
    /\ record_tasks' = [n \in Nodes |-> NoTask]
    /\ UNCHANGED <<cyclesFrame, node_side, cycle_start, userDbVars, nodeVars>>

DetachedQueries(d) ==
    IF d.job = UserJob
    THEN build_node_user_usage_upsert(dialect,
             UserUpsertParams(d.params, d.node, d.coeff, d.task.created_at))
    ELSE build_node_usage_upsert(dialect, NodeUpsertParam(d.params, d.node, d.task.created_at))

RemoveAt(seq, i) == SubSeq(seq, 1, i - 1) \o SubSeq(seq, i + 1, Len(seq))

\* a detached record_user_stats / record_node_stats task up to its first
\* statement
DetachedStart(i) ==
    /\ detached[i].task.pc = "created"
    /\ detached' = IF detached[i].params = <<>>
                   THEN RemoveAt(detached, i)
                   ELSE [detached EXCEPT ![i].task =
                            [pc |-> "running", created_at |-> utc_hour, next |-> 1]]
    /\ UNCHANGED <<cyclesFrame, sched, node_side, cycle_start, userVars, nodeVars>>

\* one safe_execute(stmt, stmt_params) of a detached task returned
DetachedExec(i) ==
    /\ detached[i].task.pc = "running"
    /\ LET d == detached[i]
           q == DetachedQueries(d)[d.task.next]
       IN /\ IF d.job = UserJob
             THEN /\ node_user_usages' = ExecUserUsage(node_user_usages, q.stmt, q.params)
                  /\ UNCHANGED node_usages
             ELSE /\ node_usages' = ExecNodeUsage(node_usages, q.stmt, q.params)
                  /\ UNCHANGED node_user_usages
          /\ detached' = IF d.task.next = Len(DetachedQueries(d))
                         THEN RemoveAt(detached, i)
                         ELSE [detached EXCEPT ![i].task.next = @ + 1]
    /\ UNCHANGED <<cyclesFrame, sched, node_side, cycle_start, userJobVars, nodeJobVars,
                   user_used_traffic, user_online_at, admin_used_traffic, node_uplink,
                   node_downlink, system_uplink, system_downlink>>

\* one safe_execute(stmt, stmt_params) of a detached task raised: the task
\* ends, nobody awaits it
DetachedRaise(i) ==
    /\ detached[i].task.pc = "running"
    /\ detached' = RemoveAt(detached, i)
    /\ UNCHANGED <<cyclesFrame, sched, node_side, cycle_start, userVars, nodeVars>>

\* the interval trigger of record_node_usages fires
FireNodeJob ==
    /\ FiringsSoFar < MaxFirings
    /\ IF CanStart(NodeJob)
       THEN /\ sched' = JobStarted(NodeJob)
            /\ node_pc' = "collecting"
            /\ cycle_start' = [cycle_start EXCEPT !.uplink = node_uplink,
                                                  !.downlink = node_downlink,
                                                  !.system_uplink = system_uplink,
                                                  !.system_downlink = system_downlink]
            /\ UNCHANGED <<node_error, outbound_response, outbound_params, node_record_tasks>>
       ELSE /\ sched' = JobSkipped(NodeJob)
            /\ UNCHANGED <<nodeJobVars, cycle_start>>
    /\ UNCHANGED <<cyclesFrame, node_side, detached, userVars, nodeDbVars>>

\* what node.get_stats(Outbounds) answers here: an error, or one uplink and
\* one downlink counter
CycleOutboundResponses ==
    {[ok |-> FALSE, stats |-> <<>>]} \cup
    {[ok |-> TRUE, stats |-> <<[type |-> "uplink", value |-> v],
                               [type |-> "downlink", value |-> v]>>] : v \in 0..MaxRaw}

\* lines 441-464 with node 1 answering and the call to node 2 failing
CycleCollectOutbounds ==
    /\ node_pc = "collecting"
    /\ \E responses \in [Nodes -> CycleOutboundResponses] :
         LET params == [n \in Nodes |-> get_outbounds_stats(responses[n])]
         IN /\ \A n \in Nodes \ {1} : ~responses[n].ok
            /\ outbound_response' = responses
            /\ outbound_params' = params
            /\ node_pc' = IF TotalUp(params) # 0 \/ TotalDown(params) # 0
                          THEN "aggregated" ELSE "returned"
    /\ UNCHANGED <<envVars, userVars, nodeDbVars, node_error, node_record_tasks>>

\* the coroutine of record_node_usages has ended; the record tasks that were
\* still pending when gather raised go on without it
FinishNodeJob ==
    /\ node_pc \in {"returned", "raised"}
    /\ detached' = detached \o
            LeftBehind(NodeJob, node_record_tasks, outbound_params, [n \in Nodes |-> <<1, 1>>])
    /\ sched' = JobEnded(NodeJob)
    /\ node_pc' = "idle"
    /\ node_error' = "none"
    /\ outbound_response' = [n \in Nodes |-> [ok |-> TRUE, stats |-> <<>>]]
    /\ outbound_params' = EmptyDict
    /\ node_record_tasks' = [n \in Nodes |-> NoTask]
    /\ UNCHANGED <<cyclesFrame, node_side, cycle_start, userVars, nodeDbVars>>

CyclesNext ==
    \/ \E k \in CounterKeys : Traffic(k)
    \/ FireUserJob
    \/ CollectExtraRaise
    \/ CycleCollectUsers
    \/ UpdateUsers
    \/ UpdateUsersRaise
    \/ UpdateAdmins
    \/ UpdateAdminsRaise
    \/ \E n \in Nodes : RecordUserStatsStart(n)
    \/ \E n \in Nodes : RecordUserStatsExec(n)
    \/ \E n \in Nodes : RecordUserStatsRaise(n)
    \/ RecordGatherReturn
    \/ RecordGatherRaise
    \/ FinishUserJob
    \/ FireNodeJob
    \/ CycleCollectOutbounds
    \/ UpdateNodes
    \/ UpdateNodesRaise
    \/ UpdateSystem
    \/ UpdateSystemRaise
    \/ \E n \in Nodes : RecordNodeStatsStart(n)
    \/ \E n \in Nodes : RecordNodeStatsExec(n)
    \/ \E n \in Nodes : RecordNodeStatsRaise(n)
    \/ NodeGatherReturn
    \/ NodeGatherRaise
    \/ FinishNodeJob
    \/ \E i \in DOMAIN detached : DetachedStart(i)
    \/ \E i \in DOMAIN detached : DetachedExec(i)
    \/ \E i \in DOMAIN detached : DetachedRaise(i)

SpecCycles == CyclesInit /\ [][CyclesNext]_vars

\* the steps of a started record_user_usages: every await in it returns
\* (the RPCs answer or time out, each safe_execute returns or raises)
UserJobStep ==
    \/ CollectExtraRaise
    \/ CycleCollectUsers
    \/ UpdateUsers
    \/ UpdateUsersRaise
    \/ UpdateAdmins
    \/ UpdateAdminsRaise
    \/ \E n \in Nodes : RecordUserStatsStart(n)
    \/ \E n \in Nodes : RecordUserStatsExec(n)
    \/ \E n \in Nodes : RecordUserStatsRaise(n)
    \/ RecordGatherReturn
    \/ RecordGatherRaise
    \/ FinishUserJob

\* record_user_usages alone, fired again and again, with the traffic on the
\* nodes and the record tasks it left behind
UserCyclesNext ==
    \/ \E k \in CounterKeys : Traffic(k)
    \/ FireUserJob
    \/ UserJobStep
    \/ \E i \in DOMAIN detached : DetachedStart(i)
    \/ \E i \in DOMAIN detached : DetachedExec(i)
    \/ \E i \in DOMAIN detached : DetachedRaise(i)

\* the event loop runs a coroutine whose await has returned
SpecUserCyclesFair == CyclesInit /\ [][UserCyclesNext]_vars /\ WF_vars(UserJobStep)

\* ---------------------------------------------------------------------------
\* Claims about the scheduled jobs over several invocations (SpecCycles)
\* ---------------------------------------------------------------------------

JobPc(j) == IF j = UserJob THEN user_pc ELSE node_pc

\* a firing of job j that arrives while an instance of j is running
FiringWhileRunning(j) ==
    /\ sched[j].running >= 1
    /\ sched'[j].fired = sched[j].fired + 1

\* C15: of each of the two jobs at most one instance runs at any time, and
\* a firing that arrives while an instance of the same job is running is
\* skipped: it starts nothing then (the running instance goes on from where
\* it was) and nothing later, since an instance only ever starts at a
\* firing that finds none running, and every firing either starts one or is
\* skipped
C15_OneInstancePerJob ==
    /\ [](\A j \in Jobs :
            /\ sched[j].running <= 1
            /\ (sched[j].running = 1) <=> (JobPc(j) # "idle")
            /\ sched[j].fired = sched[j].started + sched[j].skipped)
    /\ [][\A j \in Jobs :
            /\ (sched'[j].started # sched[j].started) =>
                   /\ sched[j].running = 0
                   /\ sched'[j].started = sched[j].started + 1
                   /\ sched'[j].fired = sched[j].fired + 1
            /\ FiringWhileRunning(j) =>
                   /\ sched'[j].skipped = sched[j].skipped + 1
                   /\ sched'[j].running = sched[j].running
                   /\ JobPc(j)' = JobPc(j)]_vars

\* a firing of record_user_usages was skipped and the instance it met is
\* still running, its collection done
C15_Witness ==
    /\ sched[UserJob].skipped >= 1
    /\ sched[UserJob].running = 1
    /\ user_pc \notin {"idle", "collecting"}

\* what the running invocation of record_user_usages collected itself
OwnParams == [n \in Nodes |-> get_users_stats(node_response[n])]

OwnUsage == calculate_users_usage(OwnParams, node_side.coefficient)

\* C16: when a database error propagates out of the user-total update or
\* the admin-total update, no later step of that invocation runs (no admin
\* total moves after a failed user update, no fact task is ever created, and
\* from the raise on the invocation changes no total and creates no task);
\* and every invocation, whatever became of the one before it, works from
\* its own collection alone: its parameters and deltas are those of what the
\* nodes answered to it, and the totals stand at what they were when it
\* started, or at that plus its own deltas
C16_FailedCycleAbortsAndIsNotResumed ==
    /\ []((user_error = "users") =>
            /\ admin_used_traffic = cycle_start.admins
            /\ \A n \in Nodes : record_tasks[n] = NoTask)
    /\ []((user_error = "admins") => \A n \in Nodes : record_tasks[n] = NoTask)
    /\ [][(user_pc = "raised") =>
            /\ user_used_traffic' = user_used_traffic
            /\ admin_used_traffic' = admin_used_traffic
            /\ \A n \in Nodes : record_tasks[n].pc = "none" => record_tasks'[n].pc = "none"]_vars
    /\ []((sched[UserJob].running = 1) =>
            /\ user_pc \notin {"collecting", "raised"} =>
                   (api_params = OwnParams /\ users_usage = OwnUsage)
            /\ user_used_traffic \in
                   {cycle_start.users, ExecUserStmt(cycle_start.users, OwnUsage)}
            /\ admin_used_traffic \in
                   {cycle_start.admins,
                    ExecAdminStmt(cycle_start.admins, calculate_admin_usage(OwnUsage))})

\* the invocation before this one credited user 1 and then failed on the
\* admin totals; this one has credited user 1 with what it collected
C16_Witness ==
    /\ sched[UserJob].started = 2
    /\ cycle_start.users[1] > 0
    /\ cycle_start.admins[UserAdmin[1]] = 0
    /\ user_used_traffic[1] > cycle_start.users[1]

\* what the nodes still hold for user u, not yet handed out
Uncollected(u) ==
    SumFn(node_side.counter, {k \in CounterKeys : k[2] = u})

\* C17: with coefficient 1 on every node, over any sequence of invocations
\* a user's used_traffic, together with what the nodes still hold for that
\* user, never exceeds the traffic the nodes have accumulated for the user:
\* no unit of traffic is credited twice
C17_TrafficCreditedAtMostOnce ==
    (\A n \in Nodes : node_side.coefficient[n] = <<1, 1>>) =>
        \A u \in Users :
            user_used_traffic[u] + Uncollected(u) <= node_side.total[u]

\* user 1 was credited one unit by the first invocation and one more by the
\* second, which is all the traffic the user made
C17_Witness ==
    /\ \A n \in Nodes : node_side.coefficient[n] = <<1, 1>>
    /\ sched[UserJob].started = 2
    /\ cycle_start.users[1] = 1
    /\ user_used_traffic[1] = 2
    /\ node_side.total[1] = 2

\* C18: whatever the two jobs and the tasks they left behind do, in whatever
\* order, no step lowers a stored counter: used_traffic of every user and
\* admin, uplink and downlink of every node and of the system row, and the
\* value of every fact row, which once written stays
C18_CountersNeverDecrease ==
    [][/\ \A u \in Users : user_used_traffic'[u] >= user_used_traffic[u]
       /\ \A a \in Admins : admin_used_traffic'[a] >= admin_used_traffic[a]
       /\ \A n \in Nodes : /\ node_uplink'[n] >= node_uplink[n]
                            /\ node_downlink'[n] >= node_downlink[n]
       /\ system_uplink' >= system_uplink
       /\ system_downlink' >= system_downlink
       /\ \A k \in DOMAIN node_user_usages :
            /\ k \in DOMAIN node_user_usages'
            /\ node_user_usages'[k] >= node_user_usages[k]
       /\ \A k \in DOMAIN node_usages :
            /\ k \in DOMAIN node_usages'
            /\ node_usages'[k].uplink >= node_usages[k].uplink
            /\ node_usages'[k].downlink >= node_usages[k].downlink]_vars

\* both jobs are in the middle of an invocation, each having added to its
\* totals, and a fact row of the user job is written
C18_Witness ==
    /\ sched[UserJob].running = 1
    /\ sched[NodeJob].running = 1
    /\ \E u \in Users : user_used_traffic[u] > cycle_start.users[u]
    /\ \E n \in Nodes : node_uplink[n] > 0
    /\ \E k \in DOMAIN node_user_usages : node_user_usages[k] > 0

\* the raw sum of the values of one type in an Outbounds response
RECURSIVE RawSum(_, _)
RawSum(stats, type) ==
    IF stats = <<>> THEN 0
    ELSE (IF Head(stats).type = type THEN Head(stats).value ELSE 0) + RawSum(Tail(stats), type)

\* the invocation of record_node_usages is past its node update, resp. its
\* system update
NodeUpdateBehind ==
    \/ node_pc \in {"nodes_updated", "recording", "returned"}
    \/ node_pc = "raised" /\ node_error \in {"system", "facts"}

SystemUpdateBehind ==
    \/ node_pc \in {"recording", "returned"}
    \/ node_pc = "raised" /\ node_error = "facts"

\* C20: whatever the node's usage coefficient, an invocation of
\* record_node_usages adds to each node's uplink and downlink the raw sum of
\* the uplink and downlink values the node answered with, and to the system
\* row the sum of those over the nodes
C20_NodeTotalsAreCoefficientFree ==
    (sched[NodeJob].running = 1) =>
        /\ NodeUpdateBehind =>
              \A n \in Nodes :
                 /\ node_uplink[n] - cycle_start.uplink[n] =
                        RawSum(outbound_response[n].stats, "uplink")
                 /\ node_downlink[n] - cycle_start.downlink[n] =
                        RawSum(outbound_response[n].stats, "downlink")
        /\ SystemUpdateBehind =>
              /\ system_uplink - cycle_start.system_uplink =
                     SumFn([n \in Nodes |-> RawSum(outbound_response[n].stats, "uplink")], Nodes)
              /\ system_downlink - cycle_start.system_downlink =
                     SumFn([n \in Nodes |-> RawSum(outbound_response[n].stats, "downlink")],
                           Nodes)

\* node 1 has coefficient 1/2: the user job credited user 1 with nothing
\* for one unit of traffic, and the node job added node 1's raw unit to the
\* node and to the system row
C20_Witness ==
    /\ node_side.coefficient[1] = <<1, 2>>
    /\ user_online_at[1] /\ user_used_traffic[1] = 0
    /\ sched[NodeJob].running = 1
    /\ SystemUpdateBehind
    /\ node_uplink[1] - cycle_start.uplink[1] = 1
    /\ system_uplink - cycle_start.system_uplink = 1

\* ---------------------------------------------------------------------------
\* Claims about one invocation, continued (Spec)
\* ---------------------------------------------------------------------------

UsageOf(d, k) == IF k \in DOMAIN d THEN d[k] ELSE 0

\* the running totals stand at their prior values plus the deltas of the
\* invocation, once it is past its two total updates
UserTotalsSettled ==
    /\ \A u \in Users : UserAdded(u) = UsageOf(users_usage, u)
    /\ \A a \in Admins : AdminAdded(a) = UsageOf(calculate_admin_usage(users_usage), a)

NodeTotalsSettled ==
    /\ \A n \in Nodes : /\ node_uplink[n] - prior = SumUp(outbound_params[n])
                         /\ node_downlink[n] - prior = SumDown(outbound_params[n])
    /\ system_uplink - prior * Cardinality(Nodes) = TotalUp(outbound_params)
    /\ system_downlink - prior * Cardinality(Nodes) = TotalDown(outbound_params)

\* C21: an invocation that got past its total updates has added the same
\* deltas to the user and admin (resp. node and system) totals whether fact
\* recording is disabled or not, and with recording disabled it never
\* reaches fact persistence and no row of either fact table is created or
\* modified
C21_DisabledRecordingKeepsTotals ==
    /\ (user_pc \in {"recording", "returned"} /\ user_error = "none") => UserTotalsSettled
    /\ (node_pc \in {"recording", "returned"} /\ node_error = "none"
            /\ DOMAIN outbound_params = Nodes) => NodeTotalsSettled
    /\ disable_recording =>
          /\ user_pc # "recording" /\ node_pc # "recording"
          /\ \A n \in Nodes : record_tasks[n] = NoTask /\ node_record_tasks[n] = NoTask
          /\ node_user_usages = PriorUserUsages(prior)
          /\ node_usages = PriorNodeUsages(prior)

\* recording is disabled and the user-usage invocation returned having
\* credited a user and the user's admin
C21_Witness ==
    /\ disable_recording
    /\ user_pc = "returned"
    /\ \E u \in Users : UserAdded(u) > 0 /\ UserAdmin[u] # NULL /\ AdminAdded(UserAdmin[u]) > 0

\* the raw delta node n reported for user u in this invocation
RECURSIVE RawOfUser(_, _)
RawOfUser(stats, u) ==
    IF stats = <<>> THEN 0
    ELSE (IF Head(stats).name.numeric /\ Head(stats).name.seg = u
          THEN Head(stats).value ELSE 0) + RawOfUser(Tail(stats), u)

RawDelta(n, u) == IF node_response[n].ok THEN RawOfUser(node_response[n].stats, u) ELSE 0

ReportedPairs == {p \in Nodes \X Users : RawDelta(p[1], p[2]) # 0}

FactKey(p) == <<utc_hour, p[2], p[1]>>

UserCycleCompleted == user_pc = "returned" /\ user_error = "none" /\ ~disable_recording

\* the fact rows of the invocation are those of the reported pairs, each
\* having received floor(raw * coefficient); no other row moved, and on an
\* empty table no other row exists
FactsOfReportedPairs ==
    /\ \A p \in ReportedPairs :
          /\ FactKey(p) \in DOMAIN node_user_usages
          /\ FactAdded(FactKey(p)) = Scaled(RawDelta(p[1], p[2]), usage_coefficient[p[1]])
    /\ \A k \in DOMAIN node_user_usages \ {FactKey(p) : p \in ReportedPairs} :
          /\ k \in DOMAIN PriorUserUsages(prior)
          /\ FactAdded(k) = 0

\* C22 (as stated): after a completed user-usage invocation with recording
\* enabled the fact keys written are exactly the pairs with a nonzero raw
\* delta, each pair received floor(raw * coefficient), and that amount is
\* strictly positive
C22_FactsPerReportedPairArePositive ==
    UserCycleCompleted =>
        /\ FactsOfReportedPairs
        /\ \A p \in ReportedPairs : FactAdded(FactKey(p)) > 0

\* C22 (amended): after a completed user-usage invocation with recording
\* enabled the fact keys written are exactly the pairs with a nonzero raw
\* delta and each pair received floor(raw * coefficient); the amount is
\* strictly positive exactly when raw * coefficient is at least 1
C22_FactsPerReportedPair ==
    UserCycleCompleted =>
        /\ FactsOfReportedPairs
        /\ \A p \in ReportedPairs :
              LET c == usage_coefficient[p[1]]
              IN (FactAdded(FactKey(p)) > 0) <=> (RawDelta(p[1], p[2]) * c[1] >= c[2])

\* node 1 at coefficient 1/2 reported 1 for user 1 and node 2 at coefficient
\* 2 reported 1 for user 2: a row holding 0 and a row holding 2 were created
C22_Witness ==
    /\ UserCycleCompleted /\ prior = 0
    /\ usage_coefficient[1] = <<1, 2>> /\ RawDelta(1, 1) = 1
    /\ usage_coefficient[2] = <<2, 1>> /\ RawDelta(2, 2) = 1
    /\ node_user_usages[<<0, 1, 1>>] = 0
    /\ node_user_usages[<<0, 2, 2>>] = 2

\* a step of a record_user_stats task of the invocation: its start, one of
\* its statements, or its failure
FactWriteStep ==
    \/ node_user_usages' # node_user_usages
    \/ \E n \in Nodes : /\ record_tasks[n].pc \in {"created", "running"}
                         /\ record_tasks'[n] # record_tasks[n]

\* C23: in one user-usage invocation the user batch is committed while the
\* admin totals and the fact table are still untouched, the admin batch is
\* committed after the user batch and before any record task exists, and
\* every step of a record task finds both totals settled
C23_UsersThenAdminsThenFacts ==
    [][/\ (user_used_traffic' # user_used_traffic) =>
             /\ \A a \in Admins : AdminAdded(a) = 0
             /\ node_user_usages = PriorUserUsages(prior)
             /\ \A n \in Nodes : record_tasks[n] = NoTask
       /\ (admin_used_traffic' # admin_used_traffic) =>
             /\ user_pc = "users_updated"
             /\ \A u \in Users : UserAdded(u) = UsageOf(users_usage, u)
             /\ node_user_usages = PriorUserUsages(prior)
             /\ \A n \in Nodes : record_tasks[n] = NoTask
       /\ FactWriteStep =>
             /\ user_pc = "recording" \/ (user_pc = "raised" /\ user_error = "facts")
             /\ UserTotalsSettled]_vars

\* a fact row of the invocation is written while other record tasks are
\* still to run, the user and the admin having been credited
C23_Witness ==
    /\ user_pc = "recording"
    /\ \E n \in Nodes : record_tasks[n].pc = "created"
    /\ \E k \in DOMAIN node_user_usages : FactAdded(k) > 0
    /\ UserAdded(1) > 0 /\ AdminAdded(UserAdmin[1]) > 0

\* ---------------------------------------------------------------------------
\* Claims about record_user_stats / record_node_stats against the clock
\* (SpecUpsert)
\* ---------------------------------------------------------------------------

\* nothing is done to the rows of table keyed by hours the clock has left
ClosedHoursUntouched(before, after) ==
    /\ \A k \in DOMAIN before : k[1] < utc_hour => (k \in DOMAIN after /\ after[k] = before[k])
    /\ \A k \in DOMAIN after : k[1] < utc_hour => k \in DOMAIN before

\* C24: once the UTC clock has left hour bucket H no step creates or
\* modifies a fact row keyed by H, in either fact table
C24_ClosedHourIsImmutable ==
    [][/\ ClosedHoursUntouched(node_user_usages, node_user_usages')
       /\ ClosedHoursUntouched(node_usages, node_usages')]_vars

\* ---------------------------------------------------------------------------
\* Claims about safe_execute, continued (SpecExec)
\* ---------------------------------------------------------------------------

\* C25: every attempt of safe_execute opens its own session, which starts
\* from the committed table and carries nothing of an earlier attempt, and
\* whenever the executor is between attempts (handling the error, asleep,
\* back at the loop head) or has ended, no session is open
C25_FreshSessionPerAttempt ==
    /\ []((exec.pc \in {"session", "executed", "failing"}) <=> session.open)
    /\ []((exec.pc = "sleeping") => session = NoSession)
    /\ [][(exec'.pc = "session" /\ exec.pc # "session") =>
             /\ exec.pc = "loop"
             /\ ~session.open
             /\ session' = [open |-> TRUE, table |-> node_user_usages]]_vars

\* the second attempt on a batch of two rows has its session open, after a
\* sleep, and the session shows the committed table
C25_Witness ==
    /\ exec.pc = "session" /\ exec.attempt = 1
    /\ Len(exec.sleeps) = 1 /\ Len(exec.params) = 2
    /\ session.open /\ session.table = node_user_usages

IsDeadlock(err) == is_mysql_deadlock(err) \/ is_pg_deadlock(err)

\* the sleep before retry k follows the error of attempt k: 50*2^(k-1) to
\* 75*2^(k-1) ms after a deadlock, 100*k ms after a locked database
SleepsInRange ==
    \A k \in 1..Len(exec.sleeps) :
        /\ IsDeadlock(exec.errors[k]) =>
               /\ 50 * Pow2(k - 1) <= exec.sleeps[k]
               /\ exec.sleeps[k] <= 75 * Pow2(k - 1)
        /\ ~IsDeadlock(exec.errors[k]) => exec.sleeps[k] = 100 * k

\* the call with the default budget met a deadlock on every attempt and
\* gave up
DefaultBudgetSpentOnDeadlocks ==
    /\ exec.pc = "raised"
    /\ exec.max_retries = DefaultMaxRetries
    /\ Len(exec.errors) = DefaultMaxRetries
    /\ \A k \in 1..Len(exec.errors) : IsDeadlock(exec.errors[k])

\* C26: the sleep before retry k of safe_execute is between 50*2^(k-1) and
\* 75*2^(k-1) ms after a deadlock and exactly 100*k ms after a SQLite
\* "database is locked"; and a call with the default budget that meets a
\* deadlock on every attempt sleeps through the five ranges of the comment
\* at line 231, the last one 800-1200 ms
C26_BackoffFollowsTheComment ==
    /\ SleepsInRange
    /\ DefaultBudgetSpentOnDeadlocks =>
          /\ Len(exec.sleeps) = 5
          /\ 800 <= exec.sleeps[5] /\ exec.sleeps[5] <= 1200

\* ---------------------------------------------------------------------------
\* Termination of an invocation (SpecUserCyclesFair)
\* ---------------------------------------------------------------------------

\* the order of the positions of an invocation: idle, collecting,
\* aggregating, settling (totals, then facts), ended
PcRank(pc) ==
    CASE pc = "idle" -> 0
      [] pc = "collecting" -> 1
      [] pc = "aggregated" -> 2
      [] pc = "users_updated" -> 3
      [] pc = "recording" -> 4
      [] pc \in {"returned", "raised"} -> 5

\* a change of position goes forward, or from the end back to idle
MovesForward(pc, next) ==
    (next # pc) =>
        \/ PcRank(next) > PcRank(pc)
        \/ pc \in {"returned", "raised"} /\ next = "idle"

\* C27: every started invocation of record_user_usages is eventually back
\* at idle, having returned or raised, and on the way its position only
\* moves forward: it collects, aggregates and settles at most once
C27_StartedCycleReturnsToIdle ==
    /\ (user_pc = "collecting") ~> (user_pc = "idle")
    /\ [][MovesForward(user_pc, user_pc')]_vars

\* two invocations of record_user_usages have started and ended, one of
\* them by an error of the admin update, and the job is back at idle
C27_Witness ==
    /\ sched[UserJob].started = 2 /\ sched[UserJob].running = 0
    /\ user_pc = "idle"
    /\ user_used_traffic[1] = 1 /\ admin_used_traffic[UserAdmin[1]] = 0
    /\ node_side.total[1] = 2

\* ---------------------------------------------------------------------------
\* Tasks and transactions left behind (SpecCycles, SpecUpsert, SpecExec)
\* ---------------------------------------------------------------------------

\* C28: when an invocation of either job has returned or raised, none of
\* the tasks it spawned is still running, so no record task ever goes on
\* beside a later invocation
C28_NoTaskOutlivesItsInvocation == detached = <<>>

\* the rows of node n in the user fact table are those the invocation found
UserFactsOfNodeUntouched(n) ==
    \A k \in (DOMAIN node_user_usages) \cup (DOMAIN PriorUserUsages(prior)) :
        (k[3] = n) =>
            /\ k \in DOMAIN node_user_usages
            /\ k \in DOMAIN PriorUserUsages(prior)
            /\ node_user_usages[k] = PriorUserUsages(prior)[k]

\* the rows of node n in the node fact table are those the invocation found
NodeFactsOfNodeUntouched(n) ==
    \A k \in (DOMAIN node_usages) \cup (DOMAIN PriorNodeUsages(prior)) :
        (k[2] = n) =>
            /\ k \in DOMAIN node_usages
            /\ k \in DOMAIN PriorNodeUsages(prior)
            /\ node_usages[k] = PriorNodeUsages(prior)[k]

\* C29: a call of record_user_stats or record_node_stats that raised a
\* database error has left the fact table as it found it on every dialect:
\* no row of its batch was created or changed, not even by an
\* insert-or-ignore that committed before the update failed
C29_FailedRecordCallLeavesNoRow ==
    \A n \in Nodes :
        /\ (record_tasks[n].pc = "failed") => UserFactsOfNodeUntouched(n)
        /\ (node_record_tasks[n].pc = "failed") => NodeFactsOfNodeUntouched(n)

\* the same on the dialects with a single upsert statement
FailedRecordCallLeavesNoRowSingleStatement ==
    (dialect \in {"postgresql", "mysql"}) => C29_FailedRecordCallLeavesNoRow

\* C30: whatever max_retries is, 0 and negative values included, a call of
\* safe_execute that returned normally has executed and committed its
\* statement exactly once
C30_ReturnMeansCommittedOnce ==
    (exec.pc = "returned") => (exec.commits = 1)

\* the same for the calls with a positive max_retries
ReturnMeansCommittedOncePositiveBudget ==
    (exec.pc = "returned" /\ exec.max_retries > 0) => (exec.commits = 1)

====
